---- MODULE Spec2Model ----
(***************************************************************************)
(* Verification model of the express-app-useable starter template:         *)
(*   - the user resource service with its list cache (user.service.ts,     *)
(*     cache.ts, user.repository.ts) and the error boundary                *)
(*     (error.middleware.ts, prisma-error.ts),                             *)
(*   - the authentication gate with login / logout (auth.middleware.ts,    *)
(*     jwt.ts, auth.ts, user.controller.ts),                               *)
(*   - the response formatter: its pagination helper and its other         *)
(*     helpers with the message codes (response.ts, message.ts),           *)
(*   - errorHandler called with any error value, the upload middleware's   *)
(*     errors among them (error.middleware.ts, file-upload.ts),            *)
(*   - a request on its way through the user router (app.ts,               *)
(*     user.route.ts, zod.middleware.ts),                                  *)
(*   - the cache manager on its own: getOrSet, delPattern and the route    *)
(*     cache middleware (cache.ts),                                        *)
(*   - the retried database transaction (database-transaction.ts).         *)
(* Each part has its own specification: SpecUsers (with SpecUsersRace,     *)
(* SpecUsersAll, SpecRegister, SpecPasswords and SpecCacheFaults for the   *)
(* user service under more requests, with every service function, through *)
(* the register route, with password payloads and over a failing cache     *)
(* store), SpecAuth, SpecPaginated, SpecResponse, SpecErrors, SpecRoutes,  *)
(* SpecCache, SpecDelPattern, SpecRouteCache and SpecRetry.  Variables of  *)
(* the other parts stay at their initial value.                            *)
(***************************************************************************)
EXTENDS Integers, Sequences, FiniteSets, TLC

VARIABLES
    db,          \* the User table: id -> row or NoRow
    nextId,      \* number of ids handed out so far (ids are never reused)
    dbVersion,   \* ghost: number of committed writes to the User table
    cache,       \* the node-cache store of cacheManager: list key -> entry
    pc,          \* per request slot: where the request's async function stands;
                 \*   "done" once its response is written, until the slot is reused
    loc,         \* per request slot: the locals of the request
    quiet,       \* ghost: per list key, the results of the list reads that began
                 \*        and completed since the last mutation step, flush or expiry
    returnedVer, \* ghost: the newest write whose mutation has returned success
    deletedOk,   \* ghost: per id, how many delete requests were answered 200
    started,     \* ghost: number of requests received so far
    budget       \* ghost: number of requests one behaviour receives at most

usersVars ==
    <<db, nextId, dbVersion, cache, pc, loc, quiet, returnedVer, deletedOk, started,
      budget>>

VARIABLES
    config,      \* the values of src/config: TOKEN_SET_IN, COOKIES_DOMAIN
    now,         \* the clock, in seconds
    jar,         \* the client's cookie jar: the value of cookie "token"
    bearer,      \* the token the client keeps for the Authorization header
    req,         \* the request travelling through the user router
    res,         \* its response
    stage,       \* where the request stands: "none", "gate", "handler", "sent"
    session      \* ghost: the last login and logout the client completed

authVars == <<config, now, jar, bearer, req, res, stage, session>>

VARIABLES
    call,        \* the arguments of the ResponseUtil.paginated call
    out,         \* what the call did: threw, or the response it wrote
    helperCall,  \* a call of one of the ResponseUtil helpers with its arguments
    envelope,    \* the status and JSON body that call wrote
    raised,      \* the error value handed to errorHandler
    reply,       \* what errorHandler did with it
    lane         \* the request in flight through the user router

(* The cache manager on its own, the route cache and the retried transaction *)
VARIABLES
    cm,          \* cacheManager used directly: its store, the getOrSet callers,
                 \*   the last delPattern call
    mw,          \* a route behind CacheManager.middleware: store and exchange
    retry        \* an executeWithRetry call: options, loop position, outcome

pagVars == <<call, out, helperCall, envelope, raised, reply, lane, cm, mw, retry>>

vars == <<usersVars, budget, authVars, pagVars>>

-----------------------------------------------------------------------------
(* Bounds of the model *)

NumProcs == 2      \* request slots that run concurrently (slots are reused)
MaxIds == 2        \* ids the table can hand out
MaxPage == 1       \* largest page a list request asks for
MaxRequests == 2   \* requests received in one behaviour

Procs == 1..NumProcs
Ids == 1..MaxIds

Names == {"A", "B"}
Emails == {"a@x.com", "b@x.com"}
Passwords == {"secret1"}

-----------------------------------------------------------------------------
(* Password hashing.  The hash is a value of its own, never the plaintext;  *)
(* compare accepts exactly the hash of the same plaintext.                  *)

BcryptHash(pw) == "$2b$" \o pw

BcryptCompare(pw, hash) == hash = BcryptHash(pw)

REDACTED == "[REDACTED]"

(* { ...user }: the row as stored *)
Spread(user) == user

(* { ...user, password: '[REDACTED]' } *)
Redact(user) == [user EXCEPT !.password = REDACTED]

-----------------------------------------------------------------------------
(* The User table and UserRepository *)

NoRow == [present |-> FALSE]

Row(id, name, email, password) ==
    [present |-> TRUE, id |-> id, name |-> name, email |-> email, password |-> password]

\* ids of the rows in id order: the order findMany returns them in
RECURSIVE RowsFrom(_, _)
RowsFrom(table, i) ==
    IF i > MaxIds THEN <<>>
    ELSE (IF table[i].present THEN <<table[i]>> ELSE <<>>) \o RowsFrom(table, i + 1)

AllRows(table) == RowsFrom(table, 1)

\* select: { id, name, email }
Selected(row) == [id |-> row.id, name |-> row.name, email |-> row.email]

Min(a, b) == IF a < b THEN a ELSE b

\* prisma.user.findMany({ select, skip, take })
FindAllOptimized(table, skip, take) ==
    LET rows == AllRows(table)
        from == skip + 1
        to   == Min(Len(rows), skip + take)
    IN  [i \in 1..(IF to >= from THEN to - from + 1 ELSE 0) |-> Selected(rows[from + i - 1])]

\* prisma.user.count()
Count(table) == Len(AllRows(table))

\* prisma.user.findUnique({ where: { id } })
FindById(table, id) == IF id \in Ids THEN table[id] ELSE NoRow

EmailTaken(table, email) ==
    \E i \in Ids : table[i].present /\ table[i].email = email

-----------------------------------------------------------------------------
(* Errors and the error boundary *)

\* a status left out: an argument not passed, a field not set
NoStatus == 0

OrStatus(statusCode, fallback) == IF statusCode = NoStatus THEN fallback ELSE statusCode

\* err.meta: undefined, or the object the storage client attaches
NoMeta == [given |-> FALSE, target |-> ""]

Meta(target) == [given |-> TRUE, target |-> target]

\* an errors list: undefined, or an array of entries
NoErrors == [given |-> FALSE, entries |-> <<>>]

Errors(entries) == [given |-> TRUE, entries |-> entries]

\* an error value as errorHandler inspects it: the classes it is an instance
\* of, and the fields it carries (messageType is typeof err.message)
ErrorValue(name, message, code, isKnownRequest, isApp, statusCode) ==
    [isZod |-> FALSE, issues |-> <<>>, name |-> name, isMulter |-> FALSE,
     messageType |-> "string", message |-> message, code |-> code, meta |-> NoMeta,
     isKnownRequest |-> isKnownRequest, isApp |-> isApp, statusCode |-> statusCode,
     errors |-> NoErrors, isSyntaxBody |-> FALSE]

\* new AppError(message, statusCode)
AppError(message, statusCode) ==
    ErrorValue("Error", message, <<>>, FALSE, TRUE, statusCode)

\* the error Prisma throws for a failed request: PrismaClientKnownRequestError
PrismaKnownRequestError(code, message) ==
    ErrorValue("PrismaClientKnownRequestError", message, code, TRUE, FALSE, 0)

NoError == ErrorValue("", "", <<>>, FALSE, FALSE, 0)

\* error codes are strings; they are kept as their characters
P2002 == <<"P", "2", "0", "0", "2">>
P2025 == <<"P", "2", "0", "2", "5">>
P2003 == <<"P", "2", "0", "0", "3">>
P1001 == <<"P", "1", "0", "0", "1">>
P1000 == <<"P", "1", "0", "0", "0">>

Digits == {"0", "1", "2", "3", "4", "5", "6", "7", "8", "9"}

\* typeof err.code === 'string' && /^P\d{3,4}$/.test(err.code)
isPrismaError(err) ==
    /\ Len(err.code) \in {4, 5}
    /\ err.code[1] = "P"
    /\ \A i \in 2..Len(err.code) : err.code[i] \in Digits

\* the lookup table with the P2025 entry lost
prismaErrorCodesWithoutP2025 ==
    << [code |-> P2002, message |-> "Unique constraint failed", httpStatus |-> 409,
        commonCause |-> "Mencoba membuat data dengan nilai unik yang sudah ada"],
       [code |-> P2003, message |-> "Foreign key constraint failed", httpStatus |-> 400,
        commonCause |-> "Foreign key tidak merujuk ke record yang ada"] >>

\* the static lookup table (the entries the user resource can meet; each
\* commonCause is cut to its first words)
prismaErrorCodes ==
    << [code |-> P2002, message |-> "Unique constraint failed", httpStatus |-> 409,
        commonCause |-> "Mencoba membuat data dengan nilai unik yang sudah ada"],
       [code |-> P2025, message |-> "Record to update or delete does not exist",
        httpStatus |-> 404,
        commonCause |-> "Mencoba mengupdate atau menghapus data yang tidak ditemukan"],
       [code |-> P2003, message |-> "Foreign key constraint failed", httpStatus |-> 400,
        commonCause |-> "Foreign key tidak merujuk ke record yang ada"],
       [code |-> P1001, message |-> "Can't reach database server", httpStatus |-> 503,
        commonCause |-> "Aplikasi tidak bisa terhubung ke database"],
       [code |-> P1000, message |-> "Authentication failed against database server",
        httpStatus |-> 401,
        commonCause |-> "Kredensial pada URL koneksi database salah"] >>

\* prismaErrorCodes.find(e => e.code === errorCode): index of the first match, 0 if none
findErrorDetails(errorCode) ==
    LET hits == {i \in 1..Len(prismaErrorCodes) : prismaErrorCodes[i].code = errorCode}
    IN  IF errorCode = <<>> \/ hits = {} THEN 0
        ELSE CHOOSE i \in hits : \A j \in hits : i <= j

\* mapPrismaError(err); the fallback hands on err.message ?? 'Database error'
mapPrismaError(err) ==
    LET details == findErrorDetails(err.code)
    IN  IF details # 0
        THEN [known |-> TRUE, message |-> prismaErrorCodes[details].message,
              commonCause |-> prismaErrorCodes[details].commonCause,
              httpStatus |-> prismaErrorCodes[details].httpStatus, meta |-> err.meta]
        ELSE [known |-> FALSE,
              message |-> IF err.messageType = "string" THEN err.message
                          ELSE "Database error",
              commonCause |-> "", httpStatus |-> 500, meta |-> err.meta]

\* err.message.startsWith(prefix), on a text
MessageStartsWith(text, prefix) ==
    Len(text) >= Len(prefix) /\ SubSeq(text, 1, Len(prefix)) = prefix

\* path.join('.')
RECURSIVE Join(_)
Join(path) ==
    IF Len(path) = 0 THEN ""
    ELSE IF Len(path) = 1 THEN path[1]
    ELSE path[1] \o "." \o Join(Tail(path))

\* err.errors.map((e) => ({ path: e.path.join('.'), message: e.message }))
ZodEntries(issues) ==
    [i \in 1..Len(issues) |-> [path |-> Join(issues[i].path), message |-> issues[i].message]]

\* the extra entries of the storage branch: { meta } and { cause }
PrismaExtra(mapped) ==
    (IF mapped.meta.given THEN << [meta |-> mapped.meta] >> ELSE <<>>)
    \o (IF mapped.commonCause # "" THEN << [cause |-> mapped.commonCause] >> ELSE <<>>)

\* what errorHandler hands to ResponseUtil.error and to the logger
Classified(statusCode, message, errors, err) ==
    [threw |-> FALSE, statusCode |-> statusCode, message |-> message, errors |-> errors,
     logged |-> [messageType |-> err.messageType, message |-> err.message]]

\* errorHandler left through an exception of its own: nothing written, nothing logged
HandlerThrew ==
    [threw |-> TRUE, statusCode |-> NoStatus, message |-> "", errors |-> NoErrors,
     logged |-> [messageType |-> "undefined", message |-> ""]]

\* errorHandler(err, req, res, _next): the status, message and errors it hands
\* to ResponseUtil.error.  err.message?.startsWith(...) is a call of a
\* non-function when the message is there and is not a string: a TypeError
errorHandler(err) ==
    IF err.isZod
        THEN Classified(400, "Invalid input data.", Errors(ZodEntries(err.issues)), err)
    ELSE IF err.name = "JsonWebTokenError" THEN Classified(401, "Invalid token", NoErrors, err)
    ELSE IF err.name = "TokenExpiredError" THEN Classified(401, "Token expired", NoErrors, err)
    ELSE IF err.isMulter THEN Classified(400, "File upload failed", NoErrors, err)
    ELSE IF err.messageType = "other" THEN HandlerThrew
    ELSE IF err.messageType = "string" /\ MessageStartsWith(err.message, "File type")
        THEN Classified(400, "Invalid file type", NoErrors, err)
    ELSE IF isPrismaError(err) \/ err.isKnownRequest
        THEN LET mapped == mapPrismaError(err)
                 extra  == PrismaExtra(mapped)
             IN  Classified(mapped.httpStatus,
                            IF mapped.message # "" THEN mapped.message
                            ELSE "A database error occurred",
                            IF Len(extra) > 0 THEN Errors(extra) ELSE NoErrors, err)
    ELSE IF err.isApp
        THEN Classified(OrStatus(err.statusCode, 500), err.message, err.errors, err)
    ELSE IF err.isSyntaxBody
        THEN Classified(400, "Invalid JSON in request body", NoErrors, err)
    ELSE Classified(500, "Internal server error", NoErrors, err)

-----------------------------------------------------------------------------
(* CacheManager over the list keys `users:all:page:<p>:limit:<l>` *)

DefaultPage == 1
DefaultLimit == 10
QueryLimits == {0, 1}

\* a key is kept as its ':'-separated segments
ListKey(page, limit) == <<"users", "all", "page", page, "limit", limit>>

UserListPrefix == <<"users", "all", "page">>

CacheKeys == {ListKey(p, l) : p \in 1..MaxPage, l \in {1, DefaultLimit}}

NoEntry == [present |-> FALSE]

\* key.startsWith(pattern)
StartsWith(key, pattern) ==
    /\ Len(pattern) <= Len(key)
    /\ SubSeq(key, 1, Len(pattern)) = pattern

\* cacheManager.get(key): the stored value, or undefined
CacheGet(store, key) == store[key]

\* cacheManager.set(key, value, ttl); fetchVer is a ghost stamp: the oldest
\* table version the value was read from
CacheSet(store, key, value, fetchVer) ==
    [store EXCEPT ![key] = [present |-> TRUE, value |-> value, fetchVer |-> fetchVer]]

\* keys.filter(key => key === pattern)
keysEqualTo(store, pattern) ==
    {k \in DOMAIN store : store[k].present /\ k = pattern}

\* keys.filter(key => key.startsWith(pattern))
keysToDelete(store, pattern) ==
    {k \in DOMAIN store : store[k].present /\ StartsWith(k, pattern)}

\* cacheManager.delPattern(pattern): the store afterwards
delPattern(store, pattern) ==
    [k \in DOMAIN store |-> IF k \in keysToDelete(store, pattern) THEN NoEntry ELSE store[k]]

\* the number delPattern returns
deletedCount(store, pattern) == Cardinality(keysToDelete(store, pattern))

\* an invalidation that deletes the key of the default first page only
invalidateDefaultPageOnly(store) == delPattern(store, ListKey(DefaultPage, DefaultLimit))

\* invalidateUserListCache()
invalidateUserListCache(store) == delPattern(store, UserListPrefix)

-----------------------------------------------------------------------------
(* Request slots *)

NoData == [hasName |-> FALSE, name |-> "", hasEmail |-> FALSE, email |-> "",
           hasPassword |-> FALSE, password |-> ""]

NoResult == [present |-> FALSE]

\* the locals of a request; the fields from writeVer on are ghost
IdleLoc ==
    [kind |-> "none", page |-> 0, limit |-> 0, id |-> 0, data |-> NoData,
     gotUsers |-> FALSE, users |-> <<>>, usersVer |-> 0,
     gotTotal |-> FALSE, total |-> 0, totalVer |-> 0,
     hit |-> FALSE, result |-> NoResult, status |-> 0, success |-> FALSE,
     error |-> NoError,
     writeVer |-> 0, removed |-> 0, seenReturned |-> 0, servedFetchVer |-> 0,
     clean |-> TRUE, prior |-> {}]

\* a request takes the first slot that is not in flight
Free(p) ==
    /\ pc[p] \in {"idle", "done"}
    /\ \A q \in Procs : q < p => pc[q] \notin {"idle", "done"}
    /\ started < budget

Mutations == {"create", "update", "delete"}

\* Math.ceil(total / limit), limit > 0
CeilDiv(total, limit) == (total + limit - 1) \div limit

\* the object getAllUserService builds from the two query results
ListResult(users, total, page, limit) ==
    [present |-> TRUE,
     data |-> users,
     pagination |-> [page |-> page, limit |-> limit, total |-> total,
                     totalPages |-> CeilDiv(total, limit),
                     hasNextPage |-> page < CeilDiv(total, limit),
                     hasPrevPage |-> page > 1]]

\* ghost: a mutation step, flush or expiry ends every "nothing happened since"
Disturbed(l) ==
    [p \in Procs |-> IF pc[p] \in {"idle", "done"} THEN l[p]
                     ELSE [l[p] EXCEPT !.prior = {}, !.clean = FALSE]]

NoQuiet == [k \in CacheKeys |-> {}]

\* what stays of a request once it is answered: its outcome and the ghost fields
Answered(l) ==
    [IdleLoc EXCEPT !.kind = l.kind, !.id = l.id, !.hit = l.hit, !.result = l.result,
                    !.status = l.status, !.success = l.success, !.error = l.error,
                    !.writeVer = l.writeVer, !.removed = l.removed,
                    !.seenReturned = l.seenReturned,
                    !.servedFetchVer = l.servedFetchVer, !.prior = l.prior]

\* the response of request p is written
Respond(p, l, others) ==
    /\ pc' = [pc EXCEPT ![p] = "done"]
    /\ loc' = [others EXCEPT ![p] = Answered(l)]

-----------------------------------------------------------------------------
(* getAllUserService, called by UserController.getAllUser *)

\* the synchronous part up to the first await: key, cache lookup, hit or miss
GetAllStart(p, qpage, qlimit) ==
    /\ Free(p)
    /\ LET page  == IF qpage = 0 THEN DefaultPage ELSE qpage
           limit == IF qlimit = 0 THEN DefaultLimit ELSE qlimit
           key   == ListKey(page, limit)
           cachedResult == CacheGet(cache, key)
           base  == [IdleLoc EXCEPT !.kind = "list", !.page = page, !.limit = limit,
                                    !.seenReturned = returnedVer, !.prior = quiet[key]]
       IN  IF cachedResult.present
           THEN /\ Respond(p, [base EXCEPT !.hit = TRUE, !.result = cachedResult.value,
                                           !.servedFetchVer = cachedResult.fetchVer,
                                           !.status = 200, !.success = TRUE], loc)
                /\ quiet' = [quiet EXCEPT ![key] = @ \cup {cachedResult.value}]
           ELSE /\ pc' = [pc EXCEPT ![p] = "fetch"]
                /\ loc' = [loc EXCEPT ![p] = base]
                /\ UNCHANGED quiet
    /\ started' = started + 1
    /\ UNCHANGED <<db, nextId, dbVersion, cache, returnedVer, deletedOk, budget, authVars, pagVars>>

\* the database answers UserRepository.findAllOptimized({ skip, take })
GetAllFindUsers(p) ==
    /\ pc[p] = "fetch" /\ loc[p].kind = "list" /\ ~loc[p].gotUsers
    /\ loc' = [loc EXCEPT ![p] =
           [@ EXCEPT !.gotUsers = TRUE,
                     !.users = FindAllOptimized(db, (loc[p].page - 1) * loc[p].limit,
                                                loc[p].limit),
                     !.usersVer = dbVersion]]
    /\ UNCHANGED <<db, nextId, dbVersion, cache, pc, quiet, returnedVer, deletedOk,
                   started, budget, authVars, pagVars>>

\* the database answers UserRepository.count()
GetAllCount(p) ==
    /\ pc[p] = "fetch" /\ loc[p].kind = "list" /\ ~loc[p].gotTotal
    /\ loc' = [loc EXCEPT ![p] =
           [@ EXCEPT !.gotTotal = TRUE, !.total = Count(db), !.totalVer = dbVersion]]
    /\ UNCHANGED <<db, nextId, dbVersion, cache, pc, quiet, returnedVer, deletedOk,
                   started, budget, authVars, pagVars>>

\* after Promise.all: build the result, cacheManager.set(key, result, 300), return
GetAllFinish(p) ==
    /\ pc[p] = "fetch" /\ loc[p].kind = "list" /\ loc[p].gotUsers /\ loc[p].gotTotal
    /\ LET l == loc[p]
           key == ListKey(l.page, l.limit)
           result == ListResult(l.users, l.total, l.page, l.limit)
       IN  /\ cache' = CacheSet(cache, key, result, Min(l.usersVer, l.totalVer))
           /\ Respond(p, [l EXCEPT !.result = result, !.status = 200, !.success = TRUE], loc)
           /\ quiet' = [quiet EXCEPT ![key] = IF l.clean THEN @ \cup {result} ELSE @]
    /\ UNCHANGED <<db, nextId, dbVersion, returnedVer, deletedOk, started, budget, authVars, pagVars>>

-----------------------------------------------------------------------------
(* createUserService / updateUserService / deleteUserService, called by the *)
(* UserController handlers; a thrown error reaches errorHandler through     *)
(* asyncHandler and is answered with the status errorHandler gives it.      *)

CreateInputs ==
    {[hasName |-> TRUE, name |-> n, hasEmail |-> TRUE, email |-> e,
      hasPassword |-> TRUE, password |-> w] : n \in {"A"}, e \in Emails, w \in Passwords}

UpdateInputs ==
    {[NoData EXCEPT !.hasName = TRUE, !.name = n] : n \in {"B"}}
    \cup {[NoData EXCEPT !.hasPassword = TRUE, !.password = w] : w \in Passwords}

\* `data && data.password`: the payload has a password and it is not ""
HasTruthyPassword(data) == data.hasPassword /\ data.password # ""

\* update payloads that contain a password, the empty one included
PasswordPayloads ==
    {[NoData EXCEPT !.hasPassword = TRUE, !.password = w] : w \in Passwords \cup {""}}

\* the request ends with the error handed to errorHandler
Failed(l, err) ==
    [l EXCEPT !.status = errorHandler(err).statusCode, !.success = FALSE, !.error = err]

\* createUserService up to its repository call: the password is hashed
CreateStart(p, data) ==
    /\ Free(p)
    /\ pc' = [pc EXCEPT ![p] = "write"]
    /\ loc' = [Disturbed(loc) EXCEPT ![p] =
           [IdleLoc EXCEPT !.kind = "create",
                           !.data = [data EXCEPT !.password = BcryptHash(data.password)]]]
    /\ quiet' = NoQuiet
    /\ started' = started + 1
    /\ UNCHANGED <<db, nextId, dbVersion, cache, returnedVer, deletedOk,
                   budget, authVars, pagVars>>

\* updateUserService / deleteUserService up to `await getUserByIdService(userId)`
MutateStart(p, kind, id, data) ==
    /\ Free(p)
    /\ kind \in {"update", "delete"}
    /\ kind = "delete" => data = NoData
    /\ pc' = [pc EXCEPT ![p] = "check"]
    /\ loc' = [Disturbed(loc) EXCEPT ![p] =
           [IdleLoc EXCEPT !.kind = kind, !.id = id, !.data = data]]
    /\ quiet' = NoQuiet
    /\ started' = started + 1
    /\ UNCHANGED <<db, nextId, dbVersion, cache, returnedVer, deletedOk,
                   budget, authVars, pagVars>>

\* the write issued without `await getUserByIdService(userId)`
MutateWithoutLookup(p) ==
    /\ pc[p] = "check"
    /\ pc' = [pc EXCEPT ![p] = "write"]
    /\ loc' = [Disturbed(loc) EXCEPT ![p] =
           IF HasTruthyPassword(loc[p].data)
           THEN [loc[p] EXCEPT !.data.password = BcryptHash(loc[p].data.password)]
           ELSE loc[p]]
    /\ quiet' = NoQuiet
    /\ UNCHANGED <<db, nextId, dbVersion, cache, returnedVer, deletedOk, started,
                   budget, authVars, pagVars>>

\* getUserByIdService: the database answers findById; no row throws NOT_FOUND,
\* otherwise the password of an update payload is hashed and the write is issued
MutateCheck(p) ==
    /\ pc[p] = "check"
    /\ LET l == loc[p]
       IN  IF ~FindById(db, l.id).present
           THEN Respond(p, Failed(l, AppError("Not found", 404)), Disturbed(loc))
           ELSE /\ pc' = [pc EXCEPT ![p] = "write"]
                /\ loc' = [Disturbed(loc) EXCEPT ![p] =
                       IF HasTruthyPassword(l.data)
                       THEN [l EXCEPT !.data.password = BcryptHash(l.data.password)]
                       ELSE l]
    /\ quiet' = NoQuiet
    /\ UNCHANGED <<db, nextId, dbVersion, cache, returnedVer, deletedOk, started,
                   budget, authVars, pagVars>>

\* UserRepository.create: the row is inserted under a fresh id, or the unique
\* index on email rejects it (P2002)
RepoCreate(p) ==
    /\ pc[p] = "write" /\ loc[p].kind = "create"
    /\ LET l == loc[p]
       IN  IF EmailTaken(db, l.data.email)
           THEN /\ Respond(p, Failed(l, PrismaKnownRequestError(P2002,
                                            "Unique constraint failed")), Disturbed(loc))
                /\ UNCHANGED <<db, nextId, dbVersion>>
           ELSE /\ nextId < MaxIds
                /\ LET row == Row(nextId + 1, l.data.name, l.data.email, l.data.password)
                   IN  /\ db' = [db EXCEPT ![nextId + 1] = row]
                       /\ loc' = [Disturbed(loc) EXCEPT ![p] =
                              [l EXCEPT !.id = nextId + 1, !.result = row,
                                        !.writeVer = dbVersion + 1]]
                /\ nextId' = nextId + 1
                /\ dbVersion' = dbVersion + 1
                /\ pc' = [pc EXCEPT ![p] = "inval"]
    /\ quiet' = NoQuiet
    /\ UNCHANGED <<cache, returnedVer, deletedOk, started, budget, authVars, pagVars>>

\* the row after prisma.user.update({ where: { id }, data })
Updated(row, data) ==
    [row EXCEPT !.name = IF data.hasName THEN data.name ELSE @,
                !.password = IF data.hasPassword THEN data.password ELSE @]

\* UserRepository.update / UserRepository.delete: a missing row is P2025
RepoWrite(p) ==
    /\ pc[p] = "write" /\ loc[p].kind \in {"update", "delete"}
    /\ LET l == loc[p]
       IN  IF ~db[l.id].present
           THEN /\ Respond(p, Failed(l, PrismaKnownRequestError(P2025, "Record not found")),
                           Disturbed(loc))
                /\ UNCHANGED <<db, dbVersion>>
           ELSE /\ db' = [db EXCEPT ![l.id] =
                       IF l.kind = "delete" THEN NoRow ELSE Updated(@, l.data)]
                /\ loc' = [Disturbed(loc) EXCEPT ![p] =
                       [l EXCEPT !.result =
                                     IF l.kind = "delete" THEN db[l.id]
                                     ELSE Updated(db[l.id], l.data),
                                 !.writeVer = dbVersion + 1]]
                /\ dbVersion' = dbVersion + 1
                /\ pc' = [pc EXCEPT ![p] = "inval"]
    /\ quiet' = NoQuiet
    /\ UNCHANGED <<nextId, cache, returnedVer, deletedOk, started, budget, authVars, pagVars>>

\* after the write: invalidateUserListCache(), return the redacted user; the
\* controller answers 201 for a create and 200 otherwise
MutateFinish(p) ==
    /\ pc[p] = "inval"
    /\ LET l == loc[p]
       IN  /\ cache' = invalidateUserListCache(cache)
           /\ Respond(p, [l EXCEPT !.result = Redact(l.result),
                                   !.removed = deletedCount(cache, UserListPrefix),
                                   !.status = IF l.kind = "create" THEN 201 ELSE 200,
                                   !.success = TRUE], Disturbed(loc))
           /\ returnedVer' = IF l.writeVer > returnedVer THEN l.writeVer ELSE returnedVer
           /\ deletedOk' = IF l.kind = "delete"
                           THEN [deletedOk EXCEPT ![l.id] = @ + 1] ELSE deletedOk
    /\ quiet' = NoQuiet
    /\ UNCHANGED <<db, nextId, dbVersion, started, budget, authVars, pagVars>>

\* node-cache drops an entry whose TTL (300 s) has run out
CacheExpire(k) ==
    /\ cache[k].present
    /\ cache' = [cache EXCEPT ![k] = NoEntry]
    /\ quiet' = [quiet EXCEPT ![k] = {}]
    /\ loc' = Disturbed(loc)
    /\ UNCHANGED <<db, nextId, dbVersion, pc, returnedVer, deletedOk, started,
                   budget, authVars, pagVars>>

\* cacheManager.flush()
CacheFlush ==
    /\ \E k \in CacheKeys : cache[k].present
    /\ cache' = [k \in CacheKeys |-> NoEntry]
    /\ quiet' = NoQuiet
    /\ loc' = Disturbed(loc)
    /\ UNCHANGED <<db, nextId, dbVersion, pc, returnedVer, deletedOk, started,
                   budget, authVars, pagVars>>
-----------------------------------------------------------------------------
(* Configuration: src/config/index.ts                                       *)

\* the environment variables the authentication code depends on; "" is unset
Envs == [TOKEN_SET_IN : {"", "cookie", "header"}, COOKIES_DOMAIN : {"", "example.com"}]

\* process.env.X || fallback
OrDefault(value, fallback) == IF value = "" THEN fallback ELSE value

ConfigOf(env) ==
    [TOKEN_SET_IN   |-> OrDefault(env.TOKEN_SET_IN, "cookie"),
     COOKIES_DOMAIN |-> OrDefault(env.COOKIES_DOMAIN, "localhost")]

\* !!value of a string
Truthy(value) == value # ""

-----------------------------------------------------------------------------
(* JSON web tokens: JwtUtil over jsonwebtoken.  The clock counts days.      *)

MaxClock == 4        \* the clock stops here

TokenLifetime == 3   \* expiresIn "3D"
CookieDays == 3      \* { duration: 3, unit: "d" }

NoPayload == [user_id |-> 0, email |-> "", name |-> ""]

\* a token as the verifier sees it: its form, its payload, whether the
\* signature was made with config.JWT_SECRET, whether the issuer claim is
\* config.JWT_ISSUER, and the iat / exp claims
NoToken == [form |-> "none", payload |-> NoPayload, signed |-> FALSE, iss |-> FALSE,
            iat |-> 0, exp |-> 0]

EmptyToken == [NoToken EXCEPT !.form = "empty"]

MalformedToken == [NoToken EXCEPT !.form = "malformed"]

\* JwtUtil.generate(payload, expiresIn) at time clock
JwtGenerate(payload, expiresIn, clock) ==
    [form |-> "jwt", payload |-> payload, signed |-> TRUE, iss |-> TRUE,
     iat |-> clock, exp |-> clock + expiresIn]

NoDecoded == [present |-> FALSE, payload |-> NoPayload, iat |-> 0, exp |-> 0]

Decoded(token) ==
    [present |-> TRUE, payload |-> token.payload, iat |-> token.iat, exp |-> token.exp]

JsonWebTokenError(message) == ErrorValue("JsonWebTokenError", message, <<>>, FALSE, FALSE, 0)

TokenExpiredError == ErrorValue("TokenExpiredError", "jwt expired", <<>>, FALSE, FALSE, 0)

Thrown(err) == [ok |-> FALSE, decoded |-> NoDecoded, error |-> err]

\* a verifier that skips the exp check
JwtVerifyIgnoringExpiration(token, clockTimestamp) ==
    IF token.form \in {"none", "empty"} THEN Thrown(JsonWebTokenError("jwt must be provided"))
    ELSE IF token.form # "jwt" THEN Thrown(JsonWebTokenError("jwt malformed"))
    ELSE IF ~token.signed THEN Thrown(JsonWebTokenError("invalid signature"))
    ELSE IF ~token.iss THEN Thrown(JsonWebTokenError("jwt issuer invalid"))
    ELSE [ok |-> TRUE, decoded |-> Decoded(token), error |-> NoError]

\* JwtUtil.verify(token): jwt.verify with HS256 and the issuer, at the time
\* clockTimestamp the library reads
JwtVerify(token, clockTimestamp) ==
    IF token.form \in {"none", "empty"} THEN Thrown(JsonWebTokenError("jwt must be provided"))
    ELSE IF token.form # "jwt" THEN Thrown(JsonWebTokenError("jwt malformed"))
    ELSE IF ~token.signed THEN Thrown(JsonWebTokenError("invalid signature"))
    ELSE IF clockTimestamp >= token.exp THEN Thrown(TokenExpiredError)
    ELSE IF ~token.iss THEN Thrown(JsonWebTokenError("jwt issuer invalid"))
    ELSE [ok |-> TRUE, decoded |-> Decoded(token), error |-> NoError]

-----------------------------------------------------------------------------
(* Requests and responses of the user router *)

\* the Authorization header: absent, or a scheme word, possibly followed by
\* a space and the rest
NoHeader == [present |-> FALSE, scheme |-> "", space |-> FALSE, token |-> NoToken]

Header(scheme, token) == [present |-> TRUE, scheme |-> scheme, space |-> TRUE, token |-> token]

SchemeOnly(scheme) == [present |-> TRUE, scheme |-> scheme, space |-> FALSE, token |-> NoToken]

\* authHeader.startsWith("Bearer ")
StartsWithBearer(header) == header.scheme = "Bearer" /\ header.space

\* authHeader.split(" ")[1]
SplitSecond(header) == IF header.space THEN header.token ELSE NoToken

NoBody == [email |-> "", password |-> ""]

NoRequest ==
    [route |-> "", id |-> 0, body |-> NoBody, cookies |-> [parsed |-> TRUE, token |-> NoToken],
     authorization |-> NoHeader, auth_user |-> NoDecoded, nextCalls |-> 0,
     fromClient |-> FALSE, gated |-> FALSE, today |-> 0, clk |-> 0, handlerRan |-> FALSE]

NoCookie ==
    [present |-> FALSE, value |-> NoToken, httpOnly |-> FALSE, secure |-> FALSE,
     sameSite |-> "", domain |-> "", maxAge |-> 0, path |-> ""]

NoResponse ==
    [written |-> FALSE, status |-> 0, success |-> FALSE, message |-> "", data |-> NoRow,
     setCookie |-> NoCookie, clearCookie |-> FALSE, bodyToken |-> NoToken]

\* ResponseUtil.base: res.status(statusCode).json({ success, message, data })
Base(response, success, message, data, statusCode) ==
    [response EXCEPT !.written = TRUE, !.status = statusCode, !.success = success,
                     !.message = message, !.data = data]

\* ResponseUtil.unauthorized(res, message)
Unauthorized(response, message) == Base(response, FALSE, message, NoRow, 401)

\* ResponseUtil.success(res, data, statusCode, message)
Success(response, data, statusCode, message) == Base(response, TRUE, message, data, statusCode)

\* ResponseUtil.error(res, message, statusCode) as errorHandler calls it
ErrorResponse(response, err) ==
    Base(response, FALSE, errorHandler(err).message, NoRow, errorHandler(err).statusCode)

\* Auth.setTokenCookieHttpOnly(res, token, { duration, unit: "d" })
SetTokenCookieHttpOnly(cfg, response, token, days) ==
    [response EXCEPT !.setCookie =
        [present |-> TRUE, value |-> token, httpOnly |-> TRUE,
         secure |-> Truthy(cfg.COOKIES_DOMAIN),
         sameSite |-> IF Truthy(cfg.COOKIES_DOMAIN) THEN "none" ELSE "lax",
         domain |-> cfg.COOKIES_DOMAIN, maxAge |-> days, path |-> "/"]]

\* Auth.clearTokenCookieHttpOnly(res)
ClearTokenCookieHttpOnly(response) == [response EXCEPT !.clearCookie = TRUE]

-----------------------------------------------------------------------------
(* authMiddleware *)

\* a gate that falls back to the other transport when the configured one is empty
GateTokenFromEither(cfg, request) ==
    IF request.cookies.token.form # "none" THEN request.cookies.token
    ELSE SplitSecond(request.authorization)

\* switch (config.TOKEN_SET_IN): the token the gate hands to JwtUtil.verify
GateToken(cfg, request) ==
    CASE cfg.TOKEN_SET_IN = "cookie" -> request.cookies.token
      [] cfg.TOKEN_SET_IN = "header" -> SplitSecond(request.authorization)
      [] OTHER -> NoToken

\* the first guard; req.cookies is always an object behind cookieParser()
GateGuard(cfg, request) ==
    \/ (~request.cookies.parsed /\ cfg.TOKEN_SET_IN = "cookie")
    \/ /\ ~request.authorization.present \/ ~StartsWithBearer(request.authorization)
       /\ cfg.TOKEN_SET_IN = "header"

\* authMiddleware(req, res, next) with the two clock readings it makes:
\* today (its own) and clockTimestamp (the one inside jwt.verify)
AuthMiddleware(cfg, request, response, today, clockTimestamp) ==
    LET stamped  == [request EXCEPT !.gated = TRUE, !.today = today, !.clk = clockTimestamp]
        verified == JwtVerify(GateToken(cfg, request), clockTimestamp)
        isExpirytoken == today > verified.decoded.exp
    IN  IF GateGuard(cfg, request)
        THEN [req |-> stamped, res |-> Unauthorized(response, "Unauthorized")]
        ELSE IF ~verified.ok
        THEN [req |-> stamped, res |-> Unauthorized(response, "Invalid or expired token")]
        ELSE [req |-> [stamped EXCEPT !.auth_user = verified.decoded,
                                      !.nextCalls = @ + 1],
              res |-> IF isExpirytoken THEN ClearTokenCookieHttpOnly(response)
                      ELSE response]

-----------------------------------------------------------------------------
(* The client and the requests it sends to /api/v1/users *)

LoginBodies == [email : {"a@x.com", "b@x.com"}, password : {"secret1", "wrong"}]

\* the requests: POST /login, POST /logout, GET /:userId
RequestShapes ==
    {[route |-> "login", id |-> 0, body |-> b] : b \in LoginBodies}
    \cup {[route |-> "logout", id |-> 0, body |-> NoBody]}
    \cup {[route |-> "getUserById", id |-> i, body |-> NoBody] : i \in Ids}

ProtectedShapes == {s \in RequestShapes : s.route # "login"}

\* the registered user the router serves
RegisteredUser == Row(1, "A", "a@x.com", BcryptHash("secret1"))

PayloadOf(user) == [user_id |-> user.id, email |-> user.email, name |-> user.name]

\* tokens a peer can put into a request without logging in now: none, an
\* empty one, a malformed one, one issued at time 0, the same with a
\* signature made with another secret, the same from another issuer
EarlierToken == JwtGenerate(PayloadOf(RegisteredUser), TokenLifetime, 0)

CraftedTokens ==
    {NoToken, EmptyToken, MalformedToken, EarlierToken,
     [EarlierToken EXCEPT !.signed = FALSE, !.exp = MaxClock + 1],
     [EarlierToken EXCEPT !.iss = FALSE, !.exp = MaxClock + 1]}

CraftedHeaders ==
    {NoHeader, SchemeOnly("Bearer"), Header("Basic", EarlierToken)}
    \cup {Header("Bearer", t) : t \in CraftedTokens \ {NoToken}}

NoSession == [state |-> "none", issued |-> NoToken]

\* whether the route is mounted behind userRouter.use(authMiddleware)
Protected(route) == route # "login"

Arrive(request) ==
    /\ req' = request
    /\ res' = NoResponse
    /\ stage' = IF Protected(request.route) THEN "gate" ELSE "handler"
    /\ UNCHANGED <<config, now, jar, bearer, session, usersVars, pagVars>>

\* the client sends what it holds: the cookie of its jar, and the token it
\* keeps for the Authorization header
ClientSend(shape) ==
    /\ stage = "none"
    /\ Arrive([NoRequest EXCEPT !.route = shape.route, !.id = shape.id, !.body = shape.body,
                             !.cookies = [parsed |-> TRUE, token |-> jar],
                             !.authorization = IF bearer.form = "none" THEN NoHeader
                                               ELSE Header("Bearer", bearer),
                             !.fromClient = TRUE])

\* any peer sends a protected request with a cookie and a header of its choice
CraftedSend(shape, cookieToken, header) ==
    /\ stage = "none"
    /\ Arrive([NoRequest EXCEPT !.route = shape.route, !.id = shape.id, !.body = shape.body,
                             !.cookies = [parsed |-> TRUE, token |-> cookieToken],
                             !.authorization = header])

Tick ==
    /\ now < MaxClock
    /\ now' = now + 1
    /\ UNCHANGED <<config, jar, bearer, req, res, stage, session, usersVars, pagVars>>

\* the request passes authMiddleware; the clock may advance between its two readings
Gate(elapsed) ==
    /\ stage = "gate"
    /\ now + elapsed <= MaxClock
    /\ LET outcome == AuthMiddleware(config, req, res, now, now + elapsed)
       IN  /\ req' = outcome.req
           /\ res' = outcome.res
           /\ stage' = IF outcome.res.written THEN "sent" ELSE "handler"
    /\ now' = now + elapsed
    /\ UNCHANGED <<config, jar, bearer, session, usersVars, pagVars>>

\* loginService answering an unknown email with an error of its own
LoginServiceRevealingEmail(table, email, password, clock) ==
    LET found == {i \in Ids : table[i].present /\ table[i].email = email}
        user  == table[CHOOSE i \in found : TRUE]
    IN  IF found = {}
        THEN [ok |-> FALSE, error |-> AppError("User not found", 404),
              token |-> NoToken, user |-> NoRow]
        ELSE IF ~BcryptCompare(password, user.password)
        THEN [ok |-> FALSE, error |-> AppError("Email or password is incorrect", 401),
              token |-> NoToken, user |-> NoRow]
        ELSE [ok |-> TRUE, error |-> NoError,
              token |-> JwtGenerate(PayloadOf(user), TokenLifetime, clock),
              user |-> Redact(user)]

\* loginService: the token and redacted user, or the AppError it throws
LoginService(table, email, password, clock) ==
    LET found == {i \in Ids : table[i].present /\ table[i].email = email}
        user  == table[CHOOSE i \in found : TRUE]
    IN  IF found = {}
        THEN [ok |-> FALSE, error |-> AppError("Email or password is incorrect", 401),
              token |-> NoToken, user |-> NoRow]
        ELSE IF ~BcryptCompare(password, user.password)
        THEN [ok |-> FALSE, error |-> AppError("Email or password is incorrect", 401),
              token |-> NoToken, user |-> NoRow]
        ELSE [ok |-> TRUE, error |-> NoError,
              token |-> JwtGenerate(PayloadOf(user), TokenLifetime, clock),
              user |-> Redact(user)]

\* UserController.login
Login ==
    /\ stage = "handler" /\ req.route = "login"
    /\ LET result == LoginService(db, req.body.email, req.body.password, now)
       IN  res' = IF result.ok
                  THEN Success(SetTokenCookieHttpOnly(config, res, result.token, CookieDays),
                               result.user, 200, "Login berhasil")
                  ELSE ErrorResponse(res, result.error)
    /\ req' = [req EXCEPT !.handlerRan = TRUE]
    /\ stage' = "sent"
    /\ UNCHANGED <<config, now, jar, bearer, session, usersVars, pagVars>>

\* UserController.logout
Logout ==
    /\ stage = "handler" /\ req.route = "logout"
    /\ res' = Success(ClearTokenCookieHttpOnly(res), NoRow, 200, "Logout berhasil")
    /\ req' = [req EXCEPT !.handlerRan = TRUE]
    /\ stage' = "sent"
    /\ UNCHANGED <<config, now, jar, bearer, session, usersVars, pagVars>>

\* UserController.getUserById over getUserByIdService
GetUserById ==
    /\ stage = "handler" /\ req.route = "getUserById"
    /\ LET user == FindById(db, req.id)
       IN  res' = IF ~user.present THEN ErrorResponse(res, AppError("Not found", 404))
                  ELSE Success(res, Redact(user), 200, "Success")
    /\ req' = [req EXCEPT !.handlerRan = TRUE]
    /\ stage' = "sent"
    /\ UNCHANGED <<config, now, jar, bearer, session, usersVars, pagVars>>

\* the client takes the response: Set-Cookie and the cleared cookie change
\* its jar; it keeps the token of a Set-Cookie for the Authorization header
Receive ==
    /\ stage = "sent"
    /\ jar' = IF res.setCookie.present THEN res.setCookie.value
              ELSE IF res.clearCookie THEN NoToken ELSE jar
    /\ bearer' = IF res.setCookie.present THEN res.setCookie.value
                 ELSE IF res.bodyToken.form # "none" THEN res.bodyToken ELSE bearer
    /\ session' = IF req.route = "login" /\ res.status = 200
                  THEN [state |-> "in", issued |-> res.setCookie.value]
                  ELSE IF req.route = "logout" /\ res.status = 200 /\ session.state = "in"
                  THEN [session EXCEPT !.state = "out"]
                  ELSE session
    /\ req' = NoRequest
    /\ res' = NoResponse
    /\ stage' = "none"
    /\ UNCHANGED <<config, now, usersVars, pagVars>>
-----------------------------------------------------------------------------
(* ResponseUtil.paginated *)

MaxArg == 3          \* page, limit and total range over -1..MaxArg

NoPagination ==
    [page |-> 0, limit |-> 0, total |-> 0, totalPages |-> 0, hasNext |-> FALSE,
     hasPrev |-> FALSE, nextPage |-> 0, prevPage |-> 0]

NoCall == [page |-> 0, limit |-> 0, total |-> 0]

NoOut == [called |-> FALSE, threw |-> FALSE, message |-> "", res |-> NoResponse,
          pagination |-> NoPagination]

PaginatedThrow(message) ==
    [called |-> TRUE, threw |-> TRUE, message |-> message, res |-> NoResponse,
     pagination |-> NoPagination]

\* the body after the three checks: this.base(res, true, message, data, 200,
\* undefined, { pagination }); null is kept as 0
PaginatedWrite(page, limit, total) ==
    LET totalPages == CeilDiv(total, limit)
        hasNext == page < totalPages
        hasPrev == page > 1
    IN  [called |-> TRUE, threw |-> FALSE, message |-> "",
         res |-> Base(NoResponse, TRUE, "Success", NoRow, 200),
         pagination |-> [page |-> page, limit |-> limit, total |-> total,
                         totalPages |-> totalPages, hasNext |-> hasNext, hasPrev |-> hasPrev,
                         nextPage |-> IF hasNext THEN page + 1 ELSE 0,
                         prevPage |-> IF hasPrev THEN page - 1 ELSE 0]]

\* the helper with the page check left out
PaginatedWithoutPageCheck(page, limit, total) ==
    IF limit <= 0 THEN PaginatedThrow("Limit must be greater than 0")
    ELSE IF total < 0 THEN PaginatedThrow("Total must be non-negative")
    ELSE PaginatedWrite(page, limit, total)

\* ResponseUtil.paginated(res, data, page, limit, total)
Paginated(page, limit, total) ==
    IF limit <= 0 THEN PaginatedThrow("Limit must be greater than 0")
    ELSE IF page < 1 THEN PaginatedThrow("Page must be greater than 0")
    ELSE IF total < 0 THEN PaginatedThrow("Total must be non-negative")
    ELSE PaginatedWrite(page, limit, total)

PaginatedCall ==
    /\ ~out.called
    /\ out' = Paginated(call.page, call.limit, call.total)
    /\ UNCHANGED <<call, helperCall, envelope, raised, reply, lane, cm, mw, retry,
                 usersVars, authVars>>

-----------------------------------------------------------------------------
(* Message codes and the helpers of ResponseUtil *)

MessageCodes ==
    {"SUCCESS", "CREATED", "UPDATED", "DELETED", "ACCEPTED", "BAD_REQUEST", "UNAUTHORIZED",
     "FORBIDDEN", "NOT_FOUND", "CONFLICT", "VALIDATION_FAILED", "INVALID_CREDENTIALS",
     "TOO_MANY_REQUESTS", "INTERNAL_ERROR", "SERVICE_UNAVAILABLE", "UNPROCESSABLE_ENTITY"}

Messages ==
    [code \in MessageCodes |->
        CASE code = "SUCCESS" -> "Success"
          [] code = "CREATED" -> "Created successfully"
          [] code = "UPDATED" -> "Updated successfully"
          [] code = "DELETED" -> "Deleted successfully"
          [] code = "ACCEPTED" -> "Request accepted"
          [] code = "BAD_REQUEST" -> "Bad request"
          [] code = "UNAUTHORIZED" -> "Unauthorized"
          [] code = "FORBIDDEN" -> "Forbidden"
          [] code = "NOT_FOUND" -> "Not found"
          [] code = "CONFLICT" -> "Conflict occurred"
          [] code = "VALIDATION_FAILED" -> "Validation failed"
          [] code = "INVALID_CREDENTIALS" -> "Email or password is incorrect"
          [] code = "TOO_MANY_REQUESTS" -> "Too many requests"
          [] code = "UNPROCESSABLE_ENTITY" -> "Unprocessable entity"
          [] code = "INTERNAL_ERROR" -> "Internal server error"
          [] code = "SERVICE_UNAVAILABLE" -> "Service unavailable"]

\* Messages[code] || Messages.INTERNAL_ERROR
getMessageByCode(code) ==
    IF code \in MessageCodes THEN Messages[code] ELSE Messages["INTERNAL_ERROR"]

\* an optional string argument: undefined, or the string
Undefined == [given |-> FALSE, text |-> ""]

Str(text) == [given |-> TRUE, text |-> text]

\* truthiness of an optional string
TruthyArg(arg) == arg.given /\ arg.text # ""

\* ResponseUtil._resolveMessageAndCode(messageOrCode, defaultCode)
ResolveMessageAndCode(messageOrCode, defaultCode) ==
    IF messageOrCode.given /\ messageOrCode.text \in MessageCodes
    THEN [message |-> getMessageByCode(messageOrCode.text), messageCode |-> messageOrCode]
    ELSE IF messageOrCode.given
    THEN [message |-> messageOrCode.text, messageCode |-> Undefined]
    ELSE IF TruthyArg(defaultCode)
    THEN [message |-> getMessageByCode(defaultCode.text), messageCode |-> defaultCode]
    ELSE [message |-> "An unexpected error occurred.", messageCode |-> Undefined]

\* the data and errors arguments: null / undefined, or a value
Null == [given |-> FALSE, items |-> 0]

Payload(n) == [given |-> TRUE, items |-> n]

NoEnvelope ==
    [written |-> FALSE, status |-> 0, success |-> FALSE, message |-> "",
     hasData |-> FALSE, hasErrors |-> FALSE, messageCode |-> Undefined,
     hasPagination |-> FALSE, hasRetryAfter |-> FALSE]

\* ResponseUtil.base with all its arguments: the status and the fields of
\* the JSON body (timestamp and path left out)
BaseEnvelope(success, message, data, statusCode, errors, extra, messageCode) ==
    [written |-> TRUE, status |-> statusCode, success |-> success, message |-> message,
     hasData |-> data.given,
     hasErrors |-> errors.given,
     messageCode |-> IF TruthyArg(messageCode) THEN messageCode ELSE Undefined,
     hasPagination |-> "pagination" \in extra,
     hasRetryAfter |-> "retryAfter" \in extra]

\* ResponseUtil.success(res, data, statusCode = 200, messageOrCode)
SuccessHelper(c) ==
    IF TruthyArg(c.messageOrCode)
    THEN LET r == ResolveMessageAndCode(c.messageOrCode, Undefined)
         IN  BaseEnvelope(TRUE, r.message, c.data, OrStatus(c.statusCode, 200), Null, {},
                          r.messageCode)
    ELSE BaseEnvelope(TRUE, "Success", c.data, OrStatus(c.statusCode, 200), Null, {},
                      Undefined)

\* error() with the default status of success()
ErrorHelperDefaultOk(c) ==
    LET r == ResolveMessageAndCode(c.messageOrCode, Str("INTERNAL_ERROR"))
    IN  BaseEnvelope(FALSE, r.message, Null, OrStatus(c.statusCode, 200), c.errors, {},
                     r.messageCode)

\* ResponseUtil.error(res, messageOrCode, errors, statusCode = 500)
ErrorHelper(c) ==
    LET r == ResolveMessageAndCode(c.messageOrCode, Str("INTERNAL_ERROR"))
    IN  BaseEnvelope(FALSE, r.message, Null, OrStatus(c.statusCode, 500), c.errors, {},
                     r.messageCode)

\* ResponseUtil.notFound(res, messageOrCode)
NotFoundHelper(c) ==
    LET r == ResolveMessageAndCode(c.messageOrCode, Str("NOT_FOUND"))
    IN  BaseEnvelope(FALSE, r.message, Null, 404, Null, {}, r.messageCode)

\* ResponseUtil.created(res, data, messageOrCode)
CreatedHelper(c) ==
    LET r == ResolveMessageAndCode(c.messageOrCode, Str("CREATED"))
    IN  BaseEnvelope(TRUE, r.message, c.data, 201, Null, {}, r.messageCode)

\* a parameter with a default value: message = 'Unauthorized'
OrText(arg, fallback) == IF arg.given THEN arg.text ELSE fallback

\* validationError, unprocessableEntity, unauthorized, forbidden, noContent,
\* tooManyRequests, serviceUnavailable and paginated (with valid arguments)
FixedHelper(c) ==
    CASE c.helper = "validationError" ->
            BaseEnvelope(FALSE, OrText(c.messageOrCode, "Validation failed"), Null, 400,
                         c.errors, {}, Undefined)
      [] c.helper = "unprocessableEntity" ->
            BaseEnvelope(FALSE, OrText(c.messageOrCode, "Unprocessable Entity"), Null, 422,
                         c.errors, {}, Undefined)
      [] c.helper = "unauthorized" ->
            BaseEnvelope(FALSE, OrText(c.messageOrCode, "Unauthorized"), Null, 401, Null, {},
                         Undefined)
      [] c.helper = "forbidden" ->
            BaseEnvelope(FALSE, OrText(c.messageOrCode, "Forbidden"), Null, 403, Null, {},
                         Undefined)
      [] c.helper = "noContent" ->
            BaseEnvelope(TRUE, OrText(c.messageOrCode, "No Content"), Null, 204, Null, {},
                         Undefined)
      [] c.helper = "tooManyRequests" ->
            BaseEnvelope(FALSE, OrText(c.messageOrCode, "Too Many Requests"), Null, 429, Null,
                         IF c.data.given THEN {"retryAfter"} ELSE {}, Undefined)
      [] c.helper = "serviceUnavailable" ->
            BaseEnvelope(FALSE, OrText(c.messageOrCode, "Service Unavailable"), Null, 503, Null,
                         {}, Undefined)
      [] c.helper = "paginated" ->
            BaseEnvelope(TRUE, OrText(c.messageOrCode, "Success"), c.data, 200, Null,
                         {"pagination"}, Undefined)

ResponseHelper(c) ==
    CASE c.helper = "success" -> SuccessHelper(c)
      [] c.helper = "error" -> ErrorHelper(c)
      [] c.helper = "notFound" -> NotFoundHelper(c)
      [] c.helper = "created" -> CreatedHelper(c)
      [] OTHER -> FixedHelper(c)

NoHelperCall ==
    [helper |-> "", data |-> Null, statusCode |-> NoStatus, messageOrCode |-> Undefined,
     errors |-> Null]

\* the message arguments: none, codes of the closed set, free text, the
\* canonical text of a code
MessageArgs ==
    {Undefined, Str("SUCCESS"), Str("NOT_FOUND"), Str("INTERNAL_ERROR"),
     Str("Login berhasil"), Str("Not found"), Str("success")}

DataArgs == {Null, Payload(1)}

ErrorsArgs == {Null, Payload(0), Payload(2)}

\* the statuses the controllers pass to success(), and the ones errorHandler
\* passes to error()
SuccessStatuses == {NoStatus, 200, 201}

ErrorStatuses == {NoStatus, 400, 401, 404, 409, 500, 503}

HelperCalls ==
    [helper : {"success"}, data : DataArgs, statusCode : SuccessStatuses,
     messageOrCode : MessageArgs, errors : {Null}]
    \cup [helper : {"created"}, data : DataArgs, statusCode : {NoStatus},
          messageOrCode : MessageArgs, errors : {Null}]
    \cup [helper : {"error"}, data : {Null}, statusCode : ErrorStatuses,
          messageOrCode : MessageArgs, errors : ErrorsArgs]
    \cup [helper : {"notFound"}, data : {Null}, statusCode : {NoStatus},
          messageOrCode : MessageArgs, errors : {Null}]
    \cup [helper : {"validationError", "unprocessableEntity"}, data : {Null},
          statusCode : {NoStatus}, messageOrCode : {Undefined, Str("Login berhasil")},
          errors : ErrorsArgs \ {Null}]
    \cup [helper : {"unauthorized", "forbidden", "noContent", "serviceUnavailable"},
          data : {Null}, statusCode : {NoStatus},
          messageOrCode : {Undefined, Str("Login berhasil")}, errors : {Null}]
    \cup [helper : {"tooManyRequests", "paginated"}, data : DataArgs, statusCode : {NoStatus},
          messageOrCode : {Undefined, Str("Login berhasil")}, errors : {Null}]

HelperWrites ==
    /\ ~envelope.written
    /\ envelope' = ResponseHelper(helperCall)
    /\ UNCHANGED <<call, out, helperCall, raised, reply, lane, cm, mw, retry,
                 usersVars, authVars>>

-----------------------------------------------------------------------------
(* FileUploadService: the errors the upload middleware hands to next()      *)

DefaultMaxSize == 10     \* options.maxSize || 10 * 1024 * 1024, in MB

\* new Error(message)
PlainError(message) == ErrorValue("Error", message, <<>>, FALSE, FALSE, NoStatus)

\* multer's error for a file over limits.fileSize: MulterError('LIMIT_FILE_SIZE')
FileTooLargeError ==
    [ErrorValue("MulterError", "File too large",
                <<"L", "I", "M", "I", "T", "_", "F", "I", "L", "E", "_", "S", "I", "Z", "E">>,
                FALSE, FALSE, NoStatus) EXCEPT !.isMulter = TRUE]

\* createFileFilter(options)(req, file, cb): the error given to cb, if any
FileFilter(options, file) ==
    IF options.hasAllowedTypes /\ file.mimetype \notin options.allowedTypes
    THEN PlainError("File type " \o file.mimetype \o " not allowed")
    ELSE IF options.hasAllowedExtensions /\ file.extension \notin options.allowedExtensions
    THEN PlainError("File extension " \o file.extension \o " not allowed")
    ELSE NoError

\* createUploadMiddleware(options) on one file: the filter, then the size limit
Upload(options, file) ==
    IF FileFilter(options, file) # NoError THEN FileFilter(options, file)
    ELSE IF file.size > (IF options.maxSize # 0 THEN options.maxSize ELSE DefaultMaxSize)
    THEN FileTooLargeError
    ELSE NoError

UploadOptions ==
    [maxSize : {0, 5}, hasAllowedTypes : BOOLEAN, allowedTypes : {{"image/png"}},
     hasAllowedExtensions : BOOLEAN, allowedExtensions : {{".png"}}]

UploadedFiles ==
    [mimetype : {"image/png", "text/html"}, extension : {".png", ".exe"}, size : {1, 6, 11}]

\* the constraint violations: every error an upload ends with
UploadViolations ==
    {Upload(o, f) : o \in UploadOptions, f \in UploadedFiles} \ {NoError}

-----------------------------------------------------------------------------
(* errorHandler called with an error value *)

\* the class the value is an instance of ("none": a plain object or a string)
ErrorClasses ==
    {"none", "Error", "ZodError", "MulterError", "PrismaClientKnownRequestError",
     "AppError", "SyntaxError"}

UnknownCode == <<"P", "9", "9", "9", "9">>

ZodIssues ==
    {<<>>,
     << [path |-> <<"email">>, message |-> "Invalid email"] >>,
     << [path |-> <<"email">>, message |-> "Invalid email"],
        [path |-> <<"user", "name">>, message |-> "Required"] >>}

\* the shapes of err.message: a string, undefined, a value of another type
MessageShapes ==
    [messageType : {"string"},
     message : {"", "boom", "File type text/html not allowed",
                "File extension .exe not allowed"}]
    \cup [messageType : {"undefined", "other"}, message : {""}]

\* an instance of one class with any name, message, code, meta, statusCode
\* and body field on it
ErrorOf(class, issues, name, shape, code, meta, statusCode, hasBody) ==
    [isZod |-> class = "ZodError", issues |-> issues, name |-> name,
     isMulter |-> class = "MulterError", messageType |-> shape.messageType,
     message |-> shape.message, code |-> code, meta |-> meta,
     isKnownRequest |-> class = "PrismaClientKnownRequestError",
     isApp |-> class = "AppError", statusCode |-> statusCode, errors |-> NoErrors,
     isSyntaxBody |-> class = "SyntaxError" /\ hasBody]

RaisedErrors ==
    {ErrorOf(class, issues, name, shape, code, meta, statusCode, hasBody) :
        class \in ErrorClasses, issues \in ZodIssues,
        name \in {"", "Error", "JsonWebTokenError", "TokenExpiredError"},
        shape \in MessageShapes, code \in {<<>>, P2002, UnknownCode},
        meta \in {NoMeta, Meta("email")}, statusCode \in {NoStatus, 404},
        hasBody \in BOOLEAN}
    \cup UploadViolations

NoReply ==
    [called |-> FALSE, threw |-> FALSE, statusCode |-> NoStatus, message |-> "",
     errors |-> NoErrors, logged |-> [messageType |-> "undefined", message |-> ""]]

\* the handler runs once: it classifies, logs, and writes through
\* ResponseUtil.error(res, message, errors, statusCode)
ErrorHandlerCall ==
    /\ ~reply.called
    /\ LET r == errorHandler(raised)
       IN  /\ reply' = [called |-> TRUE, threw |-> r.threw, statusCode |-> r.statusCode,
                        message |-> r.message, errors |-> r.errors, logged |-> r.logged]
           /\ envelope' =
                IF r.threw THEN envelope
                ELSE ErrorHelper([helper |-> "error", data |-> Null,
                                  statusCode |-> r.statusCode, messageOrCode |-> Str(r.message),
                                  errors |-> IF r.errors.given
                                             THEN Payload(Len(r.errors.entries)) ELSE Null])
    /\ UNCHANGED <<call, out, helperCall, raised, lane, cm, mw, retry,
                 usersVars, authVars>>

-----------------------------------------------------------------------------
(* A request on its way through app.ts and the user router: express.json,  *)
(* the middlewares of its route, the handler wrapped by asyncHandler, and   *)
(* errorHandler.  lane.writes counts the responses written for it.          *)

UserRoutes ==
    {"register", "login", "logout", "getAllUser", "getUserById", "deleteUser", "updateUser"}

\* the middlewares a route passes, in the order user.route.ts mounts them
Chain(route) ==
    CASE route = "register"   -> <<"validateSchema", "checkEmailExists", "handler">>
      [] route = "login"      -> <<"validateSchema", "handler">>
      [] route = "updateUser" -> <<"authMiddleware", "validateSchema", "checkEmailExists",
                                   "handler">>
      [] OTHER                -> <<"authMiddleware", "handler">>

\* request bodies: not JSON, failing the schema, making the schema throw
\* something else, naming a taken email, good
Bodies == {"unparsable", "invalid", "breaking", "duplicate", "valid"}

NoLane ==
    [route |-> "", body |-> "", token |-> NoToken, env |-> "", stage |-> "idle", step |-> 0,
     err |-> NoError, writes |-> 0]

\* the SyntaxError of body-parser: it carries the body
BodySyntaxError ==
    [ErrorValue("SyntaxError", "Unexpected token", <<>>, FALSE, FALSE, 400)
        EXCEPT !.isSyntaxBody = TRUE]

\* the ZodError of schema.parse
SchemaError ==
    [ErrorValue("ZodError", "Invalid input", <<>>, FALSE, FALSE, NoStatus)
        EXCEPT !.isZod = TRUE,
               !.issues = << [path |-> <<"email">>, message |-> "Invalid email"] >>]

\* next(): the request moves to the next middleware of its route
Forward(l) == [l EXCEPT !.step = @ + 1, !.stage = Chain(l.route)[l.step + 1]]

\* next(err): the request skips to errorHandler
ForwardError(l, err) == [l EXCEPT !.stage = "errorHandler", !.err = err]

\* a helper of ResponseUtil writes the response
Written(l) == [l EXCEPT !.stage = "sent", !.writes = @ + 1]

RouteArrive(route, body, token, env) ==
    /\ lane.stage = "idle"
    /\ lane' = [NoLane EXCEPT !.route = route, !.body = body, !.token = token, !.env = env,
                              !.stage = "express.json"]
    /\ UNCHANGED <<call, out, helperCall, envelope, raised, reply, cm, mw, retry,
                 usersVars, authVars>>

\* app.use(express.json()): next(err) for a body that does not parse
JsonBody ==
    /\ lane.stage = "express.json"
    /\ lane' = IF lane.body = "unparsable" THEN ForwardError(lane, BodySyntaxError)
               ELSE Forward(lane)
    /\ UNCHANGED <<call, out, helperCall, envelope, raised, reply, cm, mw, retry,
                 usersVars, authVars>>

\* validateSchema(schema): next(), next(zodError) or next(new AppError(...))
ValidateSchema ==
    /\ lane.stage = "validateSchema"
    /\ lane' = IF lane.body = "invalid" THEN ForwardError(lane, SchemaError)
               ELSE IF lane.body = "breaking"
               THEN ForwardError(lane, AppError("Kesalahan tak terduga saat validasi input.",
                                                NoStatus))
               ELSE Forward(lane)
    /\ UNCHANGED <<call, out, helperCall, envelope, raised, reply, cm, mw, retry,
                 usersVars, authVars>>

\* checkEmailExists: a taken email ends the request with a 400
CheckEmailExists ==
    /\ lane.stage = "checkEmailExists"
    /\ lane' = IF lane.body = "duplicate"
               THEN ForwardError(lane, AppError("Email sudah terdaftar", 400))
               ELSE Forward(lane)
    /\ UNCHANGED <<call, out, helperCall, envelope, raised, reply, cm, mw, retry,
                 usersVars, authVars>>

\* userRouter.use(authMiddleware): ResponseUtil.unauthorized, or next()
GateStep ==
    /\ lane.stage = "authMiddleware"
    /\ LET cfg     == ConfigOf([TOKEN_SET_IN |-> lane.env, COOKIES_DOMAIN |-> ""])
           request == [NoRequest EXCEPT !.route = lane.route,
                                        !.cookies = [parsed |-> TRUE, token |-> lane.token]]
           outcome == AuthMiddleware(cfg, request, NoResponse, now, now)
       IN  lane' = IF outcome.res.written THEN Written(lane) ELSE Forward(lane)
    /\ UNCHANGED <<call, out, helperCall, envelope, raised, reply, cm, mw, retry,
                 usersVars, authVars>>

\* what the services of a route throw
Rejections(route) ==
    CASE route = "register"    -> {PrismaKnownRequestError(P2002, "Unique constraint failed")}
      [] route = "login"       -> {AppError("Email or password is incorrect", 401)}
      [] route = "logout"      -> {}
      [] route = "getAllUser"  -> {PrismaKnownRequestError(P1001, "Can't reach database")}
      [] route = "getUserById" -> {AppError("Not found", 404)}
      [] OTHER -> {AppError("Not found", 404),
                   PrismaKnownRequestError(P2025, "Record to delete does not exist")}

\* the ways the async function of a handler settles: it returns after
\* ResponseUtil.success wrote the response, or it rejects before any write
\* (a service threw, or the formatter threw while building the body)
Settlements(route) ==
    {[rejected |-> FALSE, reason |-> NoError]}
    \cup {[rejected |-> TRUE, reason |-> e] : e \in Rejections(route)}
    \cup {[rejected |-> TRUE, reason |-> PlainError("Do not know how to serialize")]}

\* a wrapper that calls fn and drops its promise
asyncHandlerWithoutCatch(settled) == [nextCalled |-> FALSE, err |-> NoError]

\* asyncHandler(fn): Promise.resolve(fn(req, res, next)).catch(next)
asyncHandler(settled) ==
    IF settled.rejected THEN [nextCalled |-> TRUE, err |-> settled.reason]
    ELSE [nextCalled |-> FALSE, err |-> NoError]

\* a handler of UserController
Handler(settled) ==
    /\ lane.stage = "handler"
    /\ settled \in Settlements(lane.route)
    /\ lane' = IF asyncHandler(settled).nextCalled
               THEN ForwardError(lane, asyncHandler(settled).err)
               ELSE IF settled.rejected THEN [lane EXCEPT !.stage = "pending"]
               ELSE Written(lane)
    /\ UNCHANGED <<call, out, helperCall, envelope, raised, reply, cm, mw, retry,
                 usersVars, authVars>>

\* app.use(errorHandler): ResponseUtil.error writes the response; were the
\* handler to throw, Express' final handler would write the 500
ErrorHandlerStep ==
    /\ lane.stage = "errorHandler"
    /\ lane' = Written(lane)
    /\ raised' = lane.err
    /\ reply' = [called |-> TRUE] @@ errorHandler(lane.err)
    /\ UNCHANGED <<call, out, helperCall, envelope, cm, mw, retry,
                 usersVars, authVars>>

\* the response reaches the client, the connection is free for the next request
RouteDone ==
    /\ lane.stage = "sent"
    /\ lane' = NoLane
    /\ raised' = NoError
    /\ reply' = NoReply
    /\ UNCHANGED <<call, out, helperCall, envelope, cm, mw, retry,
                 usersVars, authVars>>

-----------------------------------------------------------------------------
(* getUserByIdService and loginService as requests of the user service.     *)
(* Each reads the table once and touches nothing else, so the request is    *)
(* one step.                                                                *)

\* UserController.getUserById: getUserByIdService(userId), then success or 404
GetByIdCall(p, id) ==
    /\ Free(p)
    /\ LET user == FindById(db, id)
           l    == [IdleLoc EXCEPT !.kind = "byid", !.id = id]
       IN  Respond(p, IF ~user.present
                      THEN Failed(l, AppError(Messages["NOT_FOUND"], 404))
                      ELSE [l EXCEPT !.result = Redact(user), !.status = 200,
                                     !.success = TRUE], loc)
    /\ started' = started + 1
    /\ UNCHANGED <<db, nextId, dbVersion, cache, quiet, returnedVer, deletedOk, budget,
                   authVars, pagVars>>

\* UserController.login: loginService(email, password), then success or 401
LoginCall(p, email, password) ==
    /\ Free(p)
    /\ LET r == LoginService(db, email, password, now)
           l == [IdleLoc EXCEPT !.kind = "login"]
       IN  Respond(p, IF ~r.ok THEN Failed(l, r.error)
                      ELSE [l EXCEPT !.id = r.user.id, !.result = r.user, !.status = 200,
                                     !.success = TRUE], loc)
    /\ started' = started + 1
    /\ UNCHANGED <<db, nextId, dbVersion, cache, quiet, returnedVer, deletedOk, budget,
                   authVars, pagVars>>

-----------------------------------------------------------------------------
(* POST /register: validateSchema, checkEmailExists, createUserController.  *)
(* The email look-up of checkEmailExists and the insert of the controller's *)
(* service are separate awaits; other requests run in between.              *)

\* the request has passed validateSchema(createUserSchema) and waits for the
\* email look-up of checkEmailExists
RegisterStart(p, data) ==
    /\ Free(p)
    /\ pc' = [pc EXCEPT ![p] = "email"]
    /\ loc' = [Disturbed(loc) EXCEPT ![p] = [IdleLoc EXCEPT !.kind = "create", !.data = data]]
    /\ quiet' = NoQuiet
    /\ started' = started + 1
    /\ UNCHANGED <<db, nextId, dbVersion, cache, returnedVer, deletedOk,
                   budget, authVars, pagVars>>

\* checkEmailExists answers a taken email with 400; otherwise next(), and
\* createUserService hashes the password before its repository call
RegisterCheckEmail(p) ==
    /\ pc[p] = "email"
    /\ LET l == loc[p]
       IN  IF EmailTaken(db, l.data.email)
           THEN Respond(p, Failed(l, AppError("Email sudah terdaftar", 400)), Disturbed(loc))
           ELSE /\ pc' = [pc EXCEPT ![p] = "write"]
                /\ loc' = [Disturbed(loc) EXCEPT ![p] =
                       [l EXCEPT !.data.password = BcryptHash(l.data.password)]]
    /\ quiet' = NoQuiet
    /\ UNCHANGED <<db, nextId, dbVersion, cache, returnedVer, deletedOk, started,
                   budget, authVars, pagVars>>

-----------------------------------------------------------------------------
(* The user service while the cache store fails.  CacheManager.get, set and *)
(* del catch what the store throws; CacheManager.keys does not.             *)

\* what a failing store throws
StoreError == PlainError("cache store failed")

\* getAllUserService when cacheManager.get catches a throw and returns
\* undefined: the request goes on as after a miss
GetAllStartGetThrows(p, qpage, qlimit) ==
    /\ Free(p)
    /\ LET page  == IF qpage = 0 THEN DefaultPage ELSE qpage
           limit == IF qlimit = 0 THEN DefaultLimit ELSE qlimit
       IN  loc' = [loc EXCEPT ![p] =
               [IdleLoc EXCEPT !.kind = "list", !.page = page, !.limit = limit,
                               !.seenReturned = returnedVer,
                               !.prior = quiet[ListKey(page, limit)]]]
    /\ pc' = [pc EXCEPT ![p] = "fetch"]
    /\ started' = started + 1
    /\ UNCHANGED <<db, nextId, dbVersion, cache, quiet, returnedVer, deletedOk, budget,
                   authVars, pagVars>>

\* getAllUserService when cacheManager.set catches a throw and returns false:
\* nothing is stored, the result is returned
GetAllFinishSetThrows(p) ==
    /\ pc[p] = "fetch" /\ loc[p].kind = "list" /\ loc[p].gotUsers /\ loc[p].gotTotal
    /\ LET l == loc[p]
           result == ListResult(l.users, l.total, l.page, l.limit)
       IN  Respond(p, [l EXCEPT !.result = result, !.status = 200, !.success = TRUE], loc)
    /\ UNCHANGED <<db, nextId, dbVersion, cache, quiet, returnedVer, deletedOk, started,
                   budget, authVars, pagVars>>

\* a mutation when this.del catches a throw for the keys in `failing` and
\* returns 0 for them: those entries stay, the result is returned
MutateFinishDelThrows(p, failing) ==
    /\ pc[p] = "inval"
    /\ failing # {} /\ failing \subseteq keysToDelete(cache, UserListPrefix)
    /\ LET l == loc[p]
       IN  /\ cache' = [k \in DOMAIN cache |->
                          IF k \in failing THEN cache[k]
                          ELSE invalidateUserListCache(cache)[k]]
           /\ Respond(p, [l EXCEPT !.result = Redact(l.result),
                                   !.removed = deletedCount(cache, UserListPrefix)
                                                   - Cardinality(failing),
                                   !.status = IF l.kind = "create" THEN 201 ELSE 200,
                                   !.success = TRUE], Disturbed(loc))
           /\ returnedVer' = IF l.writeVer > returnedVer THEN l.writeVer ELSE returnedVer
           /\ deletedOk' = IF l.kind = "delete"
                           THEN [deletedOk EXCEPT ![l.id] = @ + 1] ELSE deletedOk
    /\ quiet' = NoQuiet
    /\ UNCHANGED <<db, nextId, dbVersion, started, budget, authVars, pagVars>>

\* a mutation when this.keys() throws inside delPattern: nothing catches it,
\* invalidateUserListCache and the service throw after the repository write
MutateFinishKeysThrows(p) ==
    /\ pc[p] = "inval"
    /\ Respond(p, Failed(loc[p], StoreError), Disturbed(loc))
    /\ quiet' = NoQuiet
    /\ UNCHANGED <<db, nextId, dbVersion, cache, returnedVer, deletedOk, started, budget,
                   authVars, pagVars>>

-----------------------------------------------------------------------------
(* CacheManager used directly: getOrSet by overlapping callers, delPattern  *)
(* with any pattern, and the store's own del and expiry.  Keys are the      *)
(* strings themselves; a value is the number of the producer call that made *)
(* it.                                                                      *)

MaxProduced == 3     \* producer calls in one behaviour
NumCallers == 2      \* getOrSet calls that can be in flight together
MaxValue == 2        \* values a store starts with

Callers == 1..NumCallers

\* keys in the store, and the patterns delPattern is called with
StoreKeys == {"u:1", "u:10", "u:2", "r:/a"}
\* the keys getOrSet is called with
CalledKeys == {"u:1", "r:/a"}
Patterns == {"", "u:", "u:1", "u:10", "u:10:x", "r:", ":"}

NoCaller == [pc |-> "idle", key |-> "", data |-> 0, hit |-> FALSE, returned |-> 0,
             threw |-> FALSE]

NoDelPattern == [called |-> FALSE, pattern |-> "", before |-> <<>>, after |-> <<>>,
                 returned |-> 0]

NoCacheManager ==
    [store |-> [k \in StoreKeys |-> NoEntry],
     run |-> [c \in Callers |-> NoCaller],
     produced |-> 0,
     last |-> NoDelPattern]

\* the caller's getOrSet has returned or thrown; the slot takes the next call
CallerFree(c) == cm.run[c].pc \in {"idle", "done"}

\* getOrSet awaiting one fetch per key: a caller that finds the key being
\* fetched joins that fetch instead of calling its own producer
GetOrSetStartSingleFlight(c, key) ==
    /\ CallerFree(c)
    /\ LET cached  == CacheGet(cm.store, key)
           fetches == {d \in Callers : cm.run[d].pc = "fetching" /\ cm.run[d].key = key}
       IN  IF cached.present
           THEN cm' = [cm EXCEPT !.run[c] = [NoCaller EXCEPT !.pc = "done", !.key = key,
                                                 !.hit = TRUE, !.returned = cached.value]]
           ELSE IF fetches # {}
           THEN cm' = [cm EXCEPT !.run[c] =
                          [NoCaller EXCEPT !.pc = "fetching", !.key = key,
                                           !.data = cm.run[CHOOSE d \in fetches : TRUE].data]]
           ELSE /\ cm.produced < MaxProduced
                /\ cm' = [cm EXCEPT !.produced = @ + 1,
                                    !.run[c] = [NoCaller EXCEPT !.pc = "fetching",
                                                    !.key = key, !.data = cm.produced + 1]]
    /\ UNCHANGED <<call, out, helperCall, envelope, raised, reply, lane, mw, retry,
                   usersVars, authVars>>

\* getOrSet up to `await fetchFunction()`: a cached value is returned, else
\* the producer is called and the caller waits for its promise
GetOrSetStart(c, key) ==
    /\ CallerFree(c)
    /\ LET cached == CacheGet(cm.store, key)
       IN  IF cached.present
           THEN cm' = [cm EXCEPT !.run[c] = [NoCaller EXCEPT !.pc = "done", !.key = key,
                                                 !.hit = TRUE, !.returned = cached.value]]
           ELSE /\ cm.produced < MaxProduced
                /\ cm' = [cm EXCEPT !.produced = @ + 1,
                                    !.run[c] = [NoCaller EXCEPT !.pc = "fetching",
                                                    !.key = key, !.data = cm.produced + 1]]
    /\ UNCHANGED <<call, out, helperCall, envelope, raised, reply, lane, mw, retry,
                   usersVars, authVars>>

\* the producer's promise resolves: this.set(key, data, ttl); return data
GetOrSetResolve(c) ==
    /\ cm.run[c].pc = "fetching"
    /\ cm' = [cm EXCEPT !.store = CacheSet(@, cm.run[c].key, cm.run[c].data, 0),
                        !.run[c] = [@ EXCEPT !.pc = "done", !.returned = cm.run[c].data]]
    /\ UNCHANGED <<call, out, helperCall, envelope, raised, reply, lane, mw, retry,
                   usersVars, authVars>>

\* the producer's promise rejects: the error is logged and thrown again
GetOrSetReject(c) ==
    /\ cm.run[c].pc = "fetching"
    /\ cm' = [cm EXCEPT !.run[c] = [@ EXCEPT !.pc = "done", !.threw = TRUE]]
    /\ UNCHANGED <<call, out, helperCall, envelope, raised, reply, lane, mw, retry,
                   usersVars, authVars>>

\* cacheManager.del(key): the entry is gone
CacheDel(key) ==
    /\ cm.store[key].present
    /\ cm' = [cm EXCEPT !.store[key] = NoEntry]
    /\ UNCHANGED <<call, out, helperCall, envelope, raised, reply, lane, mw, retry,
                   usersVars, authVars>>

\* cacheManager.delPattern(pattern)
DelPatternCall(pattern) ==
    /\ cm' = [cm EXCEPT !.store = delPattern(@, pattern),
                        !.last = [called |-> TRUE, pattern |-> pattern,
                                  before |-> cm.store,
                                  after |-> delPattern(cm.store, pattern),
                                  returned |-> deletedCount(cm.store, pattern)]]
    /\ UNCHANGED <<call, out, helperCall, envelope, raised, reply, lane, mw, retry,
                   usersVars, authVars>>

-----------------------------------------------------------------------------
(* A route behind CacheManager.middleware.  The handler answers with        *)
(* res.status(status).json(body); the middleware stores under the key       *)
(* `route_cache:${req.originalUrl}` and replays with res.json(cached).      *)

Urls == {"/a", "/b"}

\* what a handler answers: a status and a JSON body; `truthy` is the body's
\* truth value in JavaScript (false for null, 0, "" and false)
Answer(status, truthy, text) == [status |-> status, truthy |-> truthy, text |-> text]

Answers ==
    {Answer(200, TRUE, "list"), Answer(201, TRUE, "created"),
     Answer(404, TRUE, "not found"), Answer(500, TRUE, "error"),
     Answer(200, FALSE, "null")}

\* res.statusCode before any res.status call
DefaultStatus == 200

NoExchange == [present |-> FALSE]

\* per url: the stored body (with, as a ghost, the status it was sent with),
\* and the last request with its response
NoRouteCache ==
    [store |-> [u \in Urls |-> NoEntry],
     last |-> NoExchange]

\* the middleware, and behind it the handler answering `answer`
RouteCacheRequest(url, answer) ==
    /\ LET cached == CacheGet(mw.store, url)
       IN  IF cached.present /\ cached.value.truthy
           THEN mw' = [mw EXCEPT !.last =
                          [present |-> TRUE, url |-> url, replayed |-> TRUE,
                           original |-> cached.value,
                           status |-> DefaultStatus,
                           body |-> [truthy |-> cached.value.truthy,
                                     text |-> cached.value.text]]]
           ELSE mw' = [mw EXCEPT !.store = CacheSet(@, url, answer, 0),
                                 !.last =
                          [present |-> TRUE, url |-> url, replayed |-> FALSE,
                           original |-> answer,
                           status |-> answer.status,
                           body |-> [truthy |-> answer.truthy, text |-> answer.text]]]
    /\ UNCHANGED <<call, out, helperCall, envelope, raised, reply, lane, cm, retry,
                   usersVars, authVars>>

\* the entry's TTL runs out
RouteCacheExpire(url) ==
    /\ mw.store[url].present
    /\ mw' = [mw EXCEPT !.store[url] = NoEntry]
    /\ UNCHANGED <<call, out, helperCall, envelope, raised, reply, lane, cm, retry,
                   usersVars, authVars>>

-----------------------------------------------------------------------------
(* DatabaseTransactionService.executeWithRetry.  executeTransaction never   *)
(* throws: it returns success with the data, or failure with whatever the   *)
(* transaction threw.                                                       *)

MaxRetriesArg == 3          \* maxRetries ranges over 0..MaxRetriesArg
DefaultMaxRetries == 3      \* maxRetries: number = 3
DefaultRetryDelay == 1000   \* retryDelay: number = 1000

RetryDelays == {1, DefaultRetryDelay}

\* text.includes(code)
Includes(text, code) ==
    \E i \in 1..Len(text) : i + Len(code) - 1 <= Len(text)
                            /\ SubSeq(text, i, i + Len(code) - 1) = code

\* what a transaction can throw: an Error with its name and message, or a
\* value that has no message (throw "text", throw null)
ThrownValue(hasMessage, name, message) ==
    [hasMessage |-> hasMessage, name |-> name, message |-> message]

NothingThrown == ThrownValue(FALSE, "", "")

ThrownValues ==
    {ThrownValue(TRUE, "PrismaClientKnownRequestError", "P2034: write conflict or deadlock"),
     ThrownValue(TRUE, "Error", "read ECONNRESET"),
     ThrownValue(TRUE, "PrismaClientKnownRequestError", "P2002: Unique constraint failed"),
     ThrownValue(FALSE, "", "")}

retryableErrors == {"P2034", "P2037", "ECONNRESET", "ETIMEDOUT", "ENOTFOUND"}

\* isRetryableError(error); reading .includes of a missing message throws
isRetryableError(error) ==
    [threw |-> ~error.hasMessage,
     value |-> error.hasMessage /\ \E code \in retryableErrors :
                   Includes(error.message, code) \/ Includes(error.name, code)]

\* the result of one executeTransaction
Attempts == {[success |-> TRUE, error |-> NothingThrown]}
            \cup {[success |-> FALSE, error |-> e] : e \in ThrownValues}

NoRetry ==
    [pc |-> "idle", maxRetries |-> 0, firstDelay |-> 0, retryDelay |-> 0, attempt |-> 0,
     ran |-> 0, results |-> <<>>, waits |-> <<>>,
     returned |-> FALSE, threw |-> FALSE, success |-> FALSE,
     hasError |-> FALSE, error |-> NothingThrown]

\* the return after the loop: { success: false, error: lastError!, duration: 0 }
RetryGivesUp(r) ==
    [r EXCEPT !.pc = "done", !.returned = TRUE, !.success = FALSE,
              !.hasError = r.ran > 0,
              !.error = IF r.ran > 0 THEN r.results[r.ran].error ELSE NothingThrown]

\* the loop test `attempt <= maxRetries`
RetryLoop(r) == IF r.attempt <= r.maxRetries THEN [r EXCEPT !.pc = "attempt"]
                ELSE RetryGivesUp(r)

\* executeWithRetry(callback, maxRetries, retryDelay) up to the first await
RetryCall(maxRetries, retryDelay) ==
    /\ retry.pc \in {"idle", "done"}
    /\ retry' = RetryLoop([NoRetry EXCEPT !.maxRetries = maxRetries,
                                          !.firstDelay = retryDelay,
                                          !.retryDelay = retryDelay, !.attempt = 1])
    /\ UNCHANGED <<call, out, helperCall, envelope, raised, reply, lane, cm, mw,
                   usersVars, authVars>>

\* one pass of the loop body, from the result of executeTransaction to the
\* return, the throw, the break or `await this.delay(retryDelay)`
RetryAttempt(result) ==
    /\ retry.pc = "attempt"
    /\ LET r == [retry EXCEPT !.ran = @ + 1, !.results = Append(@, result)]
           retryable == isRetryableError(result.error)
       IN  retry' =
               IF result.success
               THEN [r EXCEPT !.pc = "done", !.returned = TRUE, !.success = TRUE]
               ELSE IF retryable.threw
               THEN [r EXCEPT !.pc = "done", !.threw = TRUE]
               ELSE IF ~retryable.value
               THEN RetryGivesUp(r)
               ELSE IF r.attempt < r.maxRetries
               THEN [r EXCEPT !.pc = "delay"]
               ELSE RetryLoop([r EXCEPT !.attempt = @ + 1])
    /\ UNCHANGED <<call, out, helperCall, envelope, raised, reply, lane, cm, mw,
                   usersVars, authVars>>

\* the delay has passed: retryDelay *= 2, attempt++, the loop test
RetryDelayOver ==
    /\ retry.pc = "delay"
    /\ retry' = RetryLoop([retry EXCEPT !.waits = Append(@, retry.retryDelay),
                                        !.retryDelay = @ * 2,
                                        !.attempt = @ + 1])
    /\ UNCHANGED <<call, out, helperCall, envelope, raised, reply, lane, cm, mw,
                   usersVars, authVars>>

-----------------------------------------------------------------------------
(* The parts at rest *)

\* the table before and after the first registration
EmptyTable == [i \in Ids |-> NoRow]

ServingTable == [i \in Ids |-> IF i = RegisteredUser.id THEN RegisteredUser ELSE NoRow]

UsersInit(tables, requests) ==
    /\ db \in tables
    /\ nextId = Count(db)
    /\ dbVersion = 0
    /\ cache = [k \in CacheKeys |-> NoEntry]
    /\ pc = [p \in Procs |-> "idle"]
    /\ loc = [p \in Procs |-> IdleLoc]
    /\ quiet = NoQuiet
    /\ returnedVer = 0
    /\ deletedOk = [i \in Ids |-> 0]
    /\ started = 0
    /\ budget = requests

\* the user service at rest with one registered user
UsersServing == UsersInit({ServingTable}, 0)

AuthInit(envs) ==
    /\ config \in {ConfigOf(env) : env \in envs}
    /\ now = 0
    /\ jar = NoToken
    /\ bearer = NoToken
    /\ req = NoRequest
    /\ res = NoResponse
    /\ stage = "none"
    /\ session = NoSession

AuthIdle == AuthInit({[TOKEN_SET_IN |-> "", COOKIES_DOMAIN |-> ""]})

PagIdle ==
    /\ call = NoCall
    /\ out = NoOut
    /\ helperCall = NoHelperCall
    /\ envelope = NoEnvelope
    /\ raised = NoError
    /\ reply = NoReply
    /\ lane = NoLane
    /\ cm = NoCacheManager
    /\ mw = NoRouteCache
    /\ retry = NoRetry

-----------------------------------------------------------------------------
(* The user service under concurrent requests *)

InitUsers == UsersInit({EmptyTable, ServingTable}, MaxRequests) /\ AuthIdle /\ PagIdle

NextUsers ==
    \/ \E p \in Procs, qpage \in 0..MaxPage, qlimit \in QueryLimits : GetAllStart(p, qpage, qlimit)
    \/ \E p \in Procs : GetAllFindUsers(p)
    \/ \E p \in Procs : GetAllCount(p)
    \/ \E p \in Procs : GetAllFinish(p)
    \/ \E p \in Procs, data \in CreateInputs : CreateStart(p, data)
    \/ \E p \in Procs, id \in Ids, data \in UpdateInputs : MutateStart(p, "update", id, data)
    \/ \E p \in Procs, id \in Ids : MutateStart(p, "delete", id, NoData)
    \/ \E p \in Procs : MutateCheck(p)
    \/ \E p \in Procs : RepoCreate(p)
    \/ \E p \in Procs : RepoWrite(p)
    \/ \E p \in Procs : MutateFinish(p)
    \/ \E k \in CacheKeys : CacheExpire(k)
    \/ CacheFlush

SpecUsers == InitUsers /\ [][NextUsers]_vars

\* the same service with room for two more requests: a read that overlaps a
\* mutation, a read after it, and a repeated read
InitUsersRace == UsersInit({EmptyTable, ServingTable}, MaxRequests + 2) /\ AuthIdle /\ PagIdle

SpecUsersRace == InitUsersRace /\ [][NextUsers]_vars

-----------------------------------------------------------------------------
(* The user service with all six functions the controllers call *)

NextUsersAll ==
    \/ NextUsers
    \/ \E p \in Procs, id \in Ids : GetByIdCall(p, id)
    \/ \E p \in Procs, email \in Emails, password \in {"secret1", "wrong"} :
          LoginCall(p, email, password)

InitUsersAll == UsersInit({ServingTable}, MaxRequests) /\ AuthIdle /\ PagIdle

SpecUsersAll == InitUsersAll /\ [][NextUsersAll]_vars

-----------------------------------------------------------------------------
(* Overlapping registrations *)

InitRegister == UsersInit({EmptyTable, ServingTable}, MaxRequests + 1) /\ AuthIdle /\ PagIdle

NextRegister ==
    \/ \E p \in Procs, data \in CreateInputs : RegisterStart(p, data)
    \/ \E p \in Procs : RegisterCheckEmail(p)
    \/ \E p \in Procs : RepoCreate(p)
    \/ \E p \in Procs : MutateFinish(p)

SpecRegister == InitRegister /\ [][NextRegister]_vars

-----------------------------------------------------------------------------
(* Creates and updates that carry a password *)

InitPasswords == UsersInit({EmptyTable, ServingTable}, MaxRequests + 1) /\ AuthIdle /\ PagIdle

NextPasswords ==
    \/ \E p \in Procs, data \in CreateInputs : CreateStart(p, data)
    \/ \E p \in Procs, id \in Ids, data \in PasswordPayloads :
          MutateStart(p, "update", id, data)
    \/ \E p \in Procs : MutateCheck(p)
    \/ \E p \in Procs : RepoCreate(p)
    \/ \E p \in Procs : RepoWrite(p)
    \/ \E p \in Procs : MutateFinish(p)

SpecPasswords == InitPasswords /\ [][NextPasswords]_vars

-----------------------------------------------------------------------------
(* The user service over a cache store whose calls may throw *)

InitCacheFaults == UsersInit({ServingTable}, MaxRequests) /\ AuthIdle /\ PagIdle

NextCacheFaults ==
    \/ NextUsers
    \/ \E p \in Procs, qpage \in 0..MaxPage, qlimit \in QueryLimits :
          GetAllStartGetThrows(p, qpage, qlimit)
    \/ \E p \in Procs : GetAllFinishSetThrows(p)
    \/ \E p \in Procs, failing \in SUBSET CacheKeys : MutateFinishDelThrows(p, failing)
    \/ \E p \in Procs : MutateFinishKeysThrows(p)

SpecCacheFaults == InitCacheFaults /\ [][NextCacheFaults]_vars

-----------------------------------------------------------------------------
(* The cache manager on its own *)

InitCache ==
    /\ UsersServing /\ AuthIdle
    /\ call = NoCall /\ out = NoOut /\ helperCall = NoHelperCall
    /\ envelope = NoEnvelope /\ raised = NoError /\ reply = NoReply /\ lane = NoLane
    /\ cm = NoCacheManager /\ mw = NoRouteCache /\ retry = NoRetry

NextCache ==
    \/ \E c \in Callers, key \in CalledKeys : GetOrSetStart(c, key)
    \/ \E c \in Callers : GetOrSetResolve(c)
    \/ \E c \in Callers : GetOrSetReject(c)
    \/ \E key \in CalledKeys : CacheDel(key)

SpecCache == InitCache /\ [][NextCache]_vars

\* delPattern on every store over StoreKeys
InitDelPattern ==
    /\ UsersServing /\ AuthIdle
    /\ call = NoCall /\ out = NoOut /\ helperCall = NoHelperCall
    /\ envelope = NoEnvelope /\ raised = NoError /\ reply = NoReply /\ lane = NoLane
    /\ \E store \in [StoreKeys -> {NoEntry} \cup {[present |-> TRUE, value |-> v,
                                                    fetchVer |-> 0] : v \in 1..MaxValue}] :
          cm = [NoCacheManager EXCEPT !.store = store]
    /\ mw = NoRouteCache /\ retry = NoRetry

NextDelPattern == \E pattern \in Patterns : DelPatternCall(pattern)

SpecDelPattern == InitDelPattern /\ [][NextDelPattern]_vars

-----------------------------------------------------------------------------
(* Requests to routes behind the cache middleware *)

InitRouteCache ==
    /\ UsersServing /\ AuthIdle
    /\ call = NoCall /\ out = NoOut /\ helperCall = NoHelperCall
    /\ envelope = NoEnvelope /\ raised = NoError /\ reply = NoReply /\ lane = NoLane
    /\ cm = NoCacheManager /\ mw = NoRouteCache /\ retry = NoRetry

NextRouteCache ==
    \/ \E url \in Urls, answer \in Answers : RouteCacheRequest(url, answer)
    \/ \E url \in Urls : RouteCacheExpire(url)

SpecRouteCache == InitRouteCache /\ [][NextRouteCache]_vars

-----------------------------------------------------------------------------
(* Retried transactions *)

InitRetry ==
    /\ UsersServing /\ AuthIdle
    /\ call = NoCall /\ out = NoOut /\ helperCall = NoHelperCall
    /\ envelope = NoEnvelope /\ raised = NoError /\ reply = NoReply /\ lane = NoLane
    /\ cm = NoCacheManager /\ mw = NoRouteCache /\ retry = NoRetry

NextRetry ==
    \/ \E maxRetries \in 0..MaxRetriesArg \cup {DefaultMaxRetries},
          retryDelay \in RetryDelays : RetryCall(maxRetries, retryDelay)
    \/ \E result \in Attempts : RetryAttempt(result)
    \/ RetryDelayOver

SpecRetry == InitRetry /\ [][NextRetry]_vars /\ WF_vars(NextRetry)

-----------------------------------------------------------------------------
(* The authentication gate with login and logout, one request at a time *)

InitAuth == UsersServing /\ AuthInit(Envs) /\ PagIdle

NextAuth ==
    \/ \E shape \in RequestShapes : ClientSend(shape)
    \/ \E shape \in ProtectedShapes, cookieToken \in CraftedTokens, header \in CraftedHeaders :
          CraftedSend(shape, cookieToken, header)
    \/ Tick
    \/ \E elapsed \in {0, 1} : Gate(elapsed)
    \/ Login
    \/ Logout
    \/ GetUserById
    \/ Receive

SpecAuth == InitAuth /\ [][NextAuth]_vars

-----------------------------------------------------------------------------
(* ResponseUtil.paginated called with any page, limit and total *)

InitPaginated ==
    /\ UsersServing /\ AuthIdle
    /\ call \in [page : -1..MaxArg, limit : -1..MaxArg, total : -1..MaxArg]
    /\ out = NoOut
    /\ helperCall = NoHelperCall
    /\ envelope = NoEnvelope
    /\ raised = NoError
    /\ reply = NoReply
    /\ lane = NoLane
    /\ cm = NoCacheManager
    /\ mw = NoRouteCache
    /\ retry = NoRetry

NextPaginated == PaginatedCall

SpecPaginated == InitPaginated /\ [][NextPaginated]_vars

-----------------------------------------------------------------------------
(* The helpers of ResponseUtil called with the arguments their callers pass *)

InitResponse ==
    /\ UsersServing /\ AuthIdle
    /\ call = NoCall
    /\ out = NoOut
    /\ helperCall \in HelperCalls
    /\ envelope = NoEnvelope
    /\ raised = NoError
    /\ reply = NoReply
    /\ lane = NoLane
    /\ cm = NoCacheManager
    /\ mw = NoRouteCache
    /\ retry = NoRetry

NextResponse == HelperWrites

SpecResponse == InitResponse /\ [][NextResponse]_vars

-----------------------------------------------------------------------------
(* errorHandler called with any error value *)

InitErrors ==
    /\ UsersServing /\ AuthIdle
    /\ call = NoCall
    /\ out = NoOut
    /\ helperCall = NoHelperCall
    /\ envelope = NoEnvelope
    /\ raised \in RaisedErrors
    /\ reply = NoReply
    /\ lane = NoLane
    /\ cm = NoCacheManager
    /\ mw = NoRouteCache
    /\ retry = NoRetry

NextErrors == ErrorHandlerCall

SpecErrors == InitErrors /\ [][NextErrors]_vars

-----------------------------------------------------------------------------
(* Requests through the user router, one at a time; the event loop runs     *)
(* every callback that is ready                                             *)

InitRoutes == UsersServing /\ AuthIdle /\ PagIdle

NextRoutes ==
    \/ \E route \in UserRoutes, body \in Bodies,
          token \in {NoToken, MalformedToken, EarlierToken}, env \in {"cookie", "header"} :
            RouteArrive(route, body, token, env)
    \/ JsonBody
    \/ ValidateSchema
    \/ CheckEmailExists
    \/ GateStep
    \/ \E settled \in UNION {Settlements(r) : r \in UserRoutes} : Handler(settled)
    \/ ErrorHandlerStep
    \/ RouteDone

SpecRoutes == InitRoutes /\ [][NextRoutes]_vars /\ WF_vars(NextRoutes)

-----------------------------------------------------------------------------
(* Properties of the user service (SpecUsers) *)

Returns(p) == pc[p] # "done" /\ pc'[p] = "done"

\* C1: when a create, update or delete returns successfully, the write has been
\* made and the cache holds no list-page entry stored before it: at the return
\* no key that starts with 'users:all:page:' is in the cache at all.
C1_NoPageStoredBeforeWrite ==
    [][\A p \in Procs :
          (Returns(p) /\ loc'[p].kind \in Mutations /\ loc'[p].success)
          => /\ loc'[p].writeVer > 0 /\ loc'[p].writeVer <= dbVersion
             /\ \A k \in CacheKeys : StartsWith(k, UserListPrefix) => ~cache'[k].present]_vars

\* a mutation returned after its invalidation removed at least one cached page
C1_Witness ==
    \E p \in Procs :
        /\ pc[p] = "done" /\ loc[p].kind \in Mutations /\ loc[p].success
        /\ loc[p].removed >= 1

\* C2: once a mutation has returned success, no list read is answered from a
\* cache entry fetched from the database before that mutation's write, and no
\* such entry is left in the cache after the invalidation has run.
C2_NoStalePage ==
    /\ \A p \in Procs :
           (pc[p] = "done" /\ loc[p].kind = "list" /\ loc[p].hit)
           => loc[p].servedFetchVer >= loc[p].seenReturned
    /\ \A k \in CacheKeys : cache[k].present => cache[k].fetchVer >= returnedVer

\* C3: a list read that follows a completed read of the same page and limit,
\* with no mutation, flush or expiry in between, is served from the cache
\* (no repository call) and returns the identical result.
C3_RepeatedReadIdentical ==
    \A p \in Procs :
        (loc[p].kind = "list" /\ loc[p].prior # {})
        => /\ pc[p] = "done"
           /\ loc[p].hit
           /\ \A r \in loc[p].prior : loc[p].result = r

\* C9: once the row of an id has been removed by a delete, every other delete
\* of that id is answered 404 (never 500), and at most one delete of an id
\* is answered 200.
C9_DeleteIdempotent ==
    /\ \A p \in Procs :
           (pc[p] = "done" /\ loc[p].kind = "delete" /\ loc[p].id <= nextId
               /\ ~db[loc[p].id].present)
           => \/ loc[p].status = 200 /\ loc[p].success /\ loc[p].writeVer > 0
              \/ loc[p].status = 404 /\ ~loc[p].success
    /\ \A i \in Ids : deletedOk[i] <= 1

\* a delete reached the repository after another delete had removed the row
C9_Witness ==
    \E p \in Procs :
        /\ pc[p] = "done" /\ loc[p].kind = "delete"
        /\ loc[p].error.code = P2025
        /\ loc[p].status = 404
        /\ deletedOk[loc[p].id] = 1

-----------------------------------------------------------------------------
(* Properties of the authentication gate (SpecAuth) *)

\* the request has passed through authMiddleware
PastGate == stage \in {"handler", "sent"} /\ req.gated

\* what the configured transport of a request carries
Carried(cfg, request) ==
    IF cfg.TOKEN_SET_IN = "cookie" THEN request.cookies.token
    ELSE IF request.authorization.present /\ request.authorization.scheme = "Bearer"
            /\ request.authorization.space
    THEN request.authorization.token
    ELSE NoToken

\* what the other transport carries
CarriedByOther(cfg, request) ==
    Carried([cfg EXCEPT !.TOKEN_SET_IN = IF @ = "cookie" THEN "header" ELSE "cookie"], request)

\* a token of this server that has not expired at time clock
Genuine(token, clock) ==
    token.form = "jwt" /\ token.signed /\ token.iss /\ clock < token.exp

\* C4: a correctly signed but expired token under the cookie transport makes
\* authMiddleware clear the token cookie and answer 401 on that request,
\* and the handler does not run.
C4_ExpiredClearsCookieAndRejects ==
    (/\ PastGate
     /\ config.TOKEN_SET_IN = "cookie"
     /\ req.cookies.token.form = "jwt" /\ req.cookies.token.signed /\ req.cookies.token.iss
     /\ req.today >= req.cookies.token.exp)
    => /\ res.written /\ res.status = 401
       /\ res.clearCookie
       /\ req.nextCalls = 0 /\ ~req.handlerRan

C8_LoginWritesConfiguredTransport ==
    (stage = "sent" /\ req.route = "login" /\ res.status = 200)
    => /\ config.TOKEN_SET_IN = "cookie"
          => res.setCookie.present /\ Genuine(res.setCookie.value, res.setCookie.value.iat)
       /\ config.TOKEN_SET_IN = "header"
          => Genuine(res.bodyToken, res.bodyToken.iat) /\ ~res.setCookie.present
       /\ res.setCookie.present
          => /\ res.setCookie.httpOnly
             /\ res.setCookie.secure = (config.COOKIES_DOMAIN # "")
             /\ res.setCookie.sameSite
                  = (IF config.COOKIES_DOMAIN # "" THEN "none" ELSE "lax")
       /\ res.data.present /\ res.data.password = REDACTED

-----------------------------------------------------------------------------
(* Properties of ResponseUtil.paginated (SpecPaginated) *)

\* C10: ResponseUtil.paginated throws and writes no response whenever
\* limit <= 0, page < 1 or total < 0 (page = 0 and limit = 0 included); it
\* writes a response only when all three bounds hold.
C10_PaginatedValidates ==
    out.called
    => /\ (call.limit <= 0 \/ call.page < 1 \/ call.total < 0)
          => out.threw /\ ~out.res.written
       /\ out.res.written
          => call.limit > 0 /\ call.page >= 1 /\ call.total >= 0
       /\ out.threw # out.res.written

C10_Witness ==
    /\ out.called /\ out.threw /\ ~out.res.written
    /\ call.page = 0 /\ call.limit > 0 /\ call.total >= 0

\* C11: for page >= 1, limit > 0 and total >= 0 the helper emits
\* totalPages = ceil(total / limit), hasNext = (page < totalPages),
\* hasPrev = (page > 1), nextPage = page + 1 exactly when hasNext,
\* prevPage = page - 1 exactly when hasPrev (null, kept as 0, otherwise),
\* and every non-null nextPage or prevPage lies in 1..totalPages.
C11_PaginationArithmetic ==
    (out.called /\ call.page >= 1 /\ call.limit > 0 /\ call.total >= 0)
    => LET p == out.pagination
       IN  /\ out.res.written
           /\ p.totalPages * call.limit >= call.total
           /\ (p.totalPages - 1) * call.limit < call.total
           /\ p.hasNext = (call.page < p.totalPages)
           /\ p.hasPrev = (call.page > 1)
           /\ p.nextPage = (IF p.hasNext THEN call.page + 1 ELSE 0)
           /\ p.prevPage = (IF p.hasPrev THEN call.page - 1 ELSE 0)
           /\ p.nextPage # 0 => p.nextPage \in 1..p.totalPages
           /\ p.prevPage # 0 => p.prevPage \in 1..p.totalPages

-----------------------------------------------------------------------------
(* Properties of the ResponseUtil helpers (SpecResponse) *)

\* the default code of the four helpers that resolve a message or code
DefaultCodeOf(helper) ==
    CASE helper = "success" -> "SUCCESS"
      [] helper = "created" -> "CREATED"
      [] helper = "error" -> "INTERNAL_ERROR"
      [] helper = "notFound" -> "NOT_FOUND"

\* C12: for success, created, error and notFound: a value of MessageCodes
\* gives the canonical text of the code as message and the code as
\* messageCode; any other string is the message verbatim with no
\* messageCode; no argument gives the helper's default code and its text.
C12_MessageResolution ==
    (envelope.written /\ helperCall.helper \in {"success", "created", "error", "notFound"})
    => LET arg == helperCall.messageOrCode
       IN  /\ (arg.given /\ arg.text \in MessageCodes)
              => envelope.message = Messages[arg.text] /\ envelope.messageCode = arg
           /\ (arg.given /\ arg.text \notin MessageCodes)
              => envelope.message = arg.text /\ ~envelope.messageCode.given
           /\ ~arg.given
              => /\ envelope.messageCode = Str(DefaultCodeOf(helperCall.helper))
                 /\ envelope.message = Messages[DefaultCodeOf(helperCall.helper)]

\* the status a helper fixes, or its default when the caller passes none
HelperStatus(helper) ==
    CASE helper = "created" -> 201
      [] helper = "noContent" -> 204
      [] helper = "notFound" -> 404
      [] helper = "unauthorized" -> 401
      [] helper = "forbidden" -> 403
      [] helper = "validationError" -> 400
      [] helper = "tooManyRequests" -> 429
      [] helper = "serviceUnavailable" -> 503
      [] helper = "unprocessableEntity" -> 422
      [] helper = "success" -> 200
      [] helper = "paginated" -> 200
      [] helper = "error" -> 500

\* C13: in every envelope success is true exactly when the status is in
\* 200..299; the fixed-status helpers use their status, and success / error
\* default to 200 / 500.
C13_SuccessIffTwoHundreds ==
    envelope.written
    => /\ envelope.success = (envelope.status \in 200..299)
       /\ helperCall.statusCode = NoStatus
          => envelope.status = HelperStatus(helperCall.helper)
       /\ helperCall.statusCode # NoStatus => envelope.status = helperCall.statusCode

C13_Witness ==
    /\ envelope.written /\ helperCall.helper = "error" /\ helperCall.statusCode = NoStatus
    /\ envelope.status = 500 /\ ~envelope.success

\* C14: every envelope has exactly one of data and errors, and pagination
\* only together with success = true.
C14_ExactlyOneOfDataErrors ==
    envelope.written
    => /\ envelope.hasData # envelope.hasErrors
       /\ envelope.hasPagination => envelope.success

-----------------------------------------------------------------------------
(* Properties of errorHandler (SpecErrors) *)

\* the classes of the classification order, by what the error is
IsSchemaValidation(err) == err.isZod
IsInvalidToken(err) == err.name = "JsonWebTokenError"
IsExpiredToken(err) == err.name = "TokenExpiredError"
IsUploadViolation(err) ==
    err.isMulter \/ err \in UploadViolations
    \/ (err.messageType = "string" /\ MessageStartsWith(err.message, "File type"))
IsStorageError(err) == isPrismaError(err) \/ err.isKnownRequest
IsAppError(err) == err.isApp
IsUnparsableBody(err) == err.isSyntaxBody

\* C16: errorHandler gives each error the outcome of the first class it
\* matches, in the order schema validation (400, one {path, message} entry
\* per violation), invalid token (401), expired token (401, another
\* message), upload violation (400), storage error (status of the lookup
\* table), AppError (its own status and message), unparsable JSON body (400),
\* anything else (500, "Internal server error").
C16_FirstMatchingClass ==
    reply.called =>
        LET err == raised
            details == findErrorDetails(err.code)
        IN  /\ ~reply.threw
            /\ IF IsSchemaValidation(err)
               THEN /\ reply.statusCode = 400
                    /\ reply.errors.given
                    /\ Len(reply.errors.entries) = Len(err.issues)
                    /\ \A i \in 1..Len(err.issues) :
                          /\ reply.errors.entries[i].path = Join(err.issues[i].path)
                          /\ reply.errors.entries[i].message = err.issues[i].message
               ELSE IF IsInvalidToken(err)
               THEN reply.statusCode = 401 /\ reply.message = "Invalid token"
               ELSE IF IsExpiredToken(err)
               THEN reply.statusCode = 401 /\ reply.message = "Token expired"
               ELSE IF IsUploadViolation(err)
               THEN reply.statusCode = 400
               ELSE IF IsStorageError(err)
               THEN reply.statusCode =
                        IF details # 0 THEN prismaErrorCodes[details].httpStatus ELSE 500
               ELSE IF IsAppError(err)
               THEN /\ reply.statusCode = OrStatus(err.statusCode, 500)
                    /\ reply.message = err.message
               ELSE IF IsUnparsableBody(err)
               THEN reply.statusCode = 400
               ELSE reply.statusCode = 500 /\ reply.message = "Internal server error"

\* C17: for a storage error whose code is not in the lookup table the client
\* gets status 500 and a body with neither the raw error message nor the
\* storage metadata.
C17_UnknownStorageErrorHidden ==
    (/\ reply.called /\ ~reply.threw
     /\ ~IsSchemaValidation(raised) /\ ~IsInvalidToken(raised) /\ ~IsExpiredToken(raised)
     /\ ~IsUploadViolation(raised)
     /\ IsStorageError(raised) /\ findErrorDetails(raised.code) = 0)
    => /\ envelope.written /\ envelope.status = 500
       /\ (raised.messageType = "string" /\ raised.message # "")
            => envelope.message # raised.message
       /\ ~(envelope.hasErrors /\ \E i \in 1..Len(reply.errors.entries) :
                "meta" \in DOMAIN reply.errors.entries[i])

\* C18: every constraint violation of the upload middleware (file too large,
\* MIME type not allowed, extension not allowed) is answered with status 400.
C18_UploadViolationIs400 ==
    (reply.called /\ raised \in UploadViolations) => reply.statusCode = 400

\* C19: errorHandler never throws: for every error value it ends by writing
\* one response with a status, a message and optional errors.
C19_ErrorHandlerNeverThrows ==
    reply.called => ~reply.threw /\ envelope.written /\ envelope.status = reply.statusCode

-----------------------------------------------------------------------------
(* Properties of login failures (SpecAuth) *)

\* the login request in flight names an email no user has
UnknownEmail == ~EmailTaken(db, req.body.email)

\* the login request in flight names a user and another password than theirs
WrongPassword ==
    \E i \in Ids : /\ db[i].present /\ db[i].email = req.body.email
                   /\ ~BcryptCompare(req.body.password, db[i].password)

\* C20: a login with an unknown email and a login with a known email and a
\* wrong password get the same response: status 401 with the one
\* invalid-credentials message, no Set-Cookie, no token in the body.
C20_LoginFailuresIndistinguishable ==
    (stage = "sent" /\ req.route = "login" /\ (UnknownEmail \/ WrongPassword))
    => res = [NoResponse EXCEPT !.written = TRUE, !.status = 401,
                                !.message = Messages["INVALID_CREDENTIALS"]]

C20_Witness ==
    /\ stage = "sent" /\ req.route = "login" /\ UnknownEmail
    /\ res.status = 401 /\ res.setCookie = NoCookie

-----------------------------------------------------------------------------
(* Properties of the user routes (SpecRoutes) *)

\* C15: every request handled by a user route gets exactly one response:
\* never two are written, a request that is done has one, and no request
\* stays without one, whichever way it goes (gate rejection, validation
\* failure, a service that throws, a formatter that throws, success).
C15_ExactlyOneResponse ==
    /\ [](lane.writes <= 1)
    /\ [](lane.stage = "sent" => lane.writes = 1)
    /\ [](lane.stage \notin {"idle", "sent"} => lane.writes = 0)
    /\ (lane.stage = "express.json") ~> (lane.stage = "sent")

C15_Witness ==
    /\ lane.stage = "sent" /\ lane.writes = 1
    /\ lane.route = "deleteUser" /\ lane.err = AppError("Not found", 404)
    /\ reply.called /\ reply.statusCode = 404

-----------------------------------------------------------------------------
(* Properties of the values the user service returns (SpecUsersAll) *)

\* the password hashes the table holds or held
StoredHashes == {BcryptHash(w) : w \in Passwords \cup {"secret1"}}

\* C21: no value the user service returns to a controller contains a stored
\* password hash: get-by-id, create, update, delete and login return the
\* user with password '[REDACTED]', and a list result, served from the cache
\* or not, has rows of id, name and email only.
C21_NoHashReturned ==
    \A p \in Procs :
        (pc[p] = "done" /\ loc[p].success) =>
            IF loc[p].kind = "list"
            THEN \A i \in 1..Len(loc[p].result.data) :
                    DOMAIN loc[p].result.data[i] = {"id", "name", "email"}
            ELSE /\ loc[p].result.present
                 /\ loc[p].result.password = REDACTED
                 /\ loc[p].result.password \notin StoredHashes

C21_Witness ==
    \E p \in Procs :
        /\ pc[p] = "done" /\ loc[p].success
        /\ loc[p].kind = "list" /\ loc[p].hit
        /\ Len(loc[p].result.data) > 0

\* the step in which slot p looks its id up and finds no row
LooksUpMissingRow(p) ==
    \/ /\ pc[p] = "check" /\ pc'[p] # "check"
       /\ ~FindById(db, loc[p].id).present
    \/ /\ Free(p) /\ started' # started
       /\ loc'[p].kind = "byid"
       /\ ~FindById(db, loc'[p].id).present

\* C26: for an id with no row, get-by-id, update and delete fail with the
\* not-found error, answered 404 with success = false, and update and delete
\* perform no repository write and no cache invalidation.
C26_MissingRowIs404WithoutEffect ==
    [][\A p \in Procs :
          LooksUpMissingRow(p) =>
              /\ pc'[p] = "done"
              /\ loc'[p].status = 404 /\ ~loc'[p].success
              /\ loc'[p].error = AppError(Messages["NOT_FOUND"], 404)
              /\ loc'[p].writeVer = 0
              /\ db' = db /\ dbVersion' = dbVersion /\ nextId' = nextId
              /\ cache' = cache]_vars

C26_Witness ==
    \E p \in Procs :
        /\ pc[p] = "done" /\ loc[p].kind \in {"update", "delete"}
        /\ loc[p].status = 404 /\ loc[p].error.isApp
        /\ ~db[loc[p].id].present
        /\ \E k \in CacheKeys : cache[k].present

-----------------------------------------------------------------------------
(* The list response (SpecUsers) *)

\* Array.isArray(value) for the values a list request answers with: the
\* service's result object has named properties, an array has none
ArrayIsArray(value) == \A key \in {"data", "pagination"} : key \notin DOMAIN value

\* res.body.data of UserController.getAllUser: the service's result is the
\* `data` argument of ResponseUtil.success
BodyData(l) == l.result

\* C24: a list request answers 200 with success = true and a data field that
\* is an array of users.
C24_ListDataIsArray ==
    \A p \in Procs :
        (pc[p] = "done" /\ loc[p].kind = "list") =>
            /\ loc[p].status = 200 /\ loc[p].success
            /\ ArrayIsArray(BodyData(loc[p]))

-----------------------------------------------------------------------------
(* Registration (SpecRegister) *)

RowsWithEmail(email) == {i \in Ids : db[i].present /\ db[i].email = email}

\* C23: registering an email that already has a user is answered 400 with
\* success = false and creates no row; also for overlapping registrations of
\* one email there is at most one user per email and every rejected
\* duplicate was answered 400.
C23_DuplicateEmailIs400 ==
    /\ \A email \in Emails : Cardinality(RowsWithEmail(email)) <= 1
    /\ \A p \in Procs :
          (pc[p] = "done" /\ loc[p].kind = "create" /\ ~loc[p].success) =>
              loc[p].status = 400

-----------------------------------------------------------------------------
(* Passwords handed to the repository (SpecPasswords) *)

\* the value is the output of BcryptUtil.hash for some plaintext
IsHash(password) == \E w \in Passwords \cup {""} : password = BcryptHash(w)

\* C25: UserRepository.create and UserRepository.update never receive a
\* plaintext password: a create always, and an update whose payload contains
\* a password, carries the hash at the repository write.
C25_RepositoryGetsHash ==
    /\ \A p \in Procs :
          (pc[p] = "write" /\ loc[p].data.hasPassword) => IsHash(loc[p].data.password)
    /\ \A i \in Ids : db[i].present => IsHash(db[i].password)

-----------------------------------------------------------------------------
(* Cache store failures (SpecCacheFaults) *)

\* C22: a cache store failure never makes a request fail: whatever get, set,
\* del or the key listing of the prefix invalidation throws, a list request
\* past its cache read ends with its normal result, and a create, update or
\* delete whose repository write is done ends with its normal result.
C22_CacheFailureNeverFailsRequest ==
    [][\A p \in Procs :
          /\ (pc[p] = "fetch" /\ pc'[p] = "done") =>
                 loc'[p].success /\ loc'[p].status = 200
          /\ (pc[p] = "inval" /\ pc'[p] = "done") =>
                 loc'[p].success /\ loc'[p].status \in {200, 201}]_vars

-----------------------------------------------------------------------------
(* The cache manager (SpecCache) *)

\* C27: getOrSet gives no at-most-once guarantee: every call that misses
\* calls its own producer, also while another call for the same key is in
\* flight; each call that resolves writes its own value, so the last write
\* wins, and each caller receives its own producer's value.
C27_GetOrSetEachCallerProduces ==
    /\ [](\A c, d \in Callers :
             (c # d /\ cm.run[c].pc = "fetching" /\ cm.run[d].pc = "fetching") =>
                 cm.run[c].data # cm.run[d].data)
    /\ [][\A c \in Callers :
             (cm.run[c].pc = "fetching" /\ cm'.run[c].pc = "done" /\ ~cm'.run[c].threw) =>
                 /\ cm'.run[c].returned = cm.run[c].data
                 /\ cm'.store[cm.run[c].key] = [present |-> TRUE, value |-> cm.run[c].data,
                                                fetchVer |-> 0]]_vars

C27_Witness ==
    \E c, d \in Callers :
        /\ c # d
        /\ cm.run[c].pc = "done" /\ cm.run[d].pc = "done"
        /\ cm.run[c].key = cm.run[d].key
        /\ ~cm.run[c].hit /\ ~cm.run[d].hit /\ ~cm.run[c].threw /\ ~cm.run[d].threw
        /\ cm.run[c].returned = 1 /\ cm.run[d].returned = 2
        /\ cm.produced = 2
        /\ cm.store[cm.run[c].key].present
        /\ cm.store[cm.run[c].key].value = 1

\* the strings a key can end with
KeyTails == {SubSeq(k, i, Len(k)) : k \in StoreKeys, i \in 1..5}

\* the key is the pattern followed by some tail
BeginsWith(key, pattern) == \E tail \in KeyTails : key = pattern \o tail

\* C28: delPattern(prefix) removes exactly the keys that start with the
\* prefix, every other key keeps its value, and the number it returns is the
\* number of keys it removed.
C28_DelPatternRemovesExactlyPrefix ==
    cm.last.called =>
        LET before == cm.last.before
            after  == cm.last.after
        IN  /\ \A k \in StoreKeys :
                  IF BeginsWith(k, cm.last.pattern)
                  THEN ~after[k].present
                  ELSE after[k] = before[k]
            /\ cm.last.returned =
                  Cardinality({k \in StoreKeys : before[k].present /\ ~after[k].present})

C28_Witness ==
    /\ cm.last.called
    /\ cm.last.pattern = "u:1"
    /\ cm.last.returned = 2
    /\ cm.last.before["u:2"].present /\ cm.last.after["u:2"].present
    /\ ~cm.last.after["u:1"].present /\ ~cm.last.after["u:10"].present

-----------------------------------------------------------------------------
(* The route cache (SpecRouteCache) *)

\* HTTP success statuses
IsSuccessStatus(status) == status >= 200 /\ status < 300

\* C30: the cache middleware replays faithfully: a cached answer has the
\* same body and the same HTTP status as the answer the handler gave, and a
\* body is stored only when the handler answered with a success status.
C30_FaithfulReplay ==
    /\ (mw.last.present /\ mw.last.replayed) =>
           /\ mw.last.status = mw.last.original.status
           /\ mw.last.body.text = mw.last.original.text
    /\ \A url \in Urls :
           mw.store[url].present => IsSuccessStatus(mw.store[url].value.status)

-----------------------------------------------------------------------------
(* executeWithRetry (SpecRetry) *)

\* the delays waited: the first delay, doubled after each failed attempt
RECURSIVE Doubling(_, _)
Doubling(first, n) == IF n = 0 THEN <<>> ELSE <<first>> \o Doubling(2 * first, n - 1)

\* C29: executeWithRetry ends without throwing; it runs the transaction at
\* least once and at most maxRetries times, stops at the first success and
\* after the first non-retryable failure, waits retryDelay doubled after
\* each failed attempt between attempts, and otherwise returns
\* success = false with the last error.
C29_RetryBoundedAndNeverThrows ==
    retry.pc = "done" =>
        /\ ~retry.threw /\ retry.returned
        /\ 1 <= retry.ran /\ retry.ran <= retry.maxRetries
        /\ \A i \in 1..(retry.ran - 1) :
              /\ ~retry.results[i].success
              /\ isRetryableError(retry.results[i].error).value
        /\ retry.waits = Doubling(retry.firstDelay, retry.ran - 1)
        /\ retry.success = retry.results[retry.ran].success
        /\ ~retry.success => /\ retry.hasError
                             /\ retry.error = retry.results[retry.ran].error

====
